---------------------------- MODULE Spec2Model ----------------------------
(***************************************************************************)
(* State machine of the anti-ephemeral-state plugin (main.ts): the         *)
(* per-document record store, the debounced writer, the change-detection   *)
(* and save path, the lock manager and the restoration sequencer.          *)
(*                                                                         *)
(* Scheduling model: one JavaScript thread.  Every handler runs without    *)
(* interruption up to its next `await` (or requestAnimationFrame /         *)
(* setTimeout / onLayoutReady deferral); each action below is one such     *)
(* run-to-suspension segment.  A storage read (exists + read + the         *)
(* optional repair write of readFileState) is taken as one step; the       *)
(* steps of writeFileState (exists, mkdir, write) are separate.            *)
(*                                                                         *)
(* Optional values (`undefined`, `null`, or a value) are encoded as        *)
(* tuples so that all values of one field stay comparable:                 *)
(*   <<>>      absent / undefined / null state                             *)
(*   <<v>>     present with value v                                        *)
(* For `timestamp` (number | null | undefined): <<>> is undefined,         *)
(* <<<<>>>> is null and <<<<n>>>> is the number n.  A value of another     *)
(* JSON type (found in a stored file, never produced by the plugin) is     *)
(* the pair <<"string", text>>.                                            *)
(***************************************************************************)
EXTENDS Integers, Sequences, FiniteSets, TLC

(***************************************************************************)
(* Bounds of the model.                                                    *)
(***************************************************************************)
\* raw host scroll offsets 0..MaxScroll, in units of 0.00005
MaxScroll == 2
\* concurrently in-flight checkTemporaryStateChanged evaluations
MaxEvals == 1
\* concurrently in-flight fire-and-forget writeFileState calls of the debouncer
MaxWrites == 2
\* length of a burst of debouncedSave calls that is counted (saturating)
MaxBurst == 3
\* document activations (file-open events) in one behaviour
MaxActivations == 2
MaxToggles == 1
\* modification times of a document: 1..MaxMtime
MaxMtime == 2
\* change events processed one after another in SpecCheck
MaxChecks == 3
\* length of the paths hashed in SpecHash, in UTF-16 code units
MaxPathLen == 5
\* calls of onload, enableLockMode, disableLockMode and onunload in SpecLock
MaxLockCalls == 5

\* DELAY_WRITING_DB: the debounce window in ms (time is abstract in the model:
\* a call "within the window" is a call made while the timer is pending)
DELAY_WRITING_DB == 500

Paths == {"A.md", "B.md"}

Undefined == <<>>
Some(v) == <<v>>
TsNull == << <<>> >>
TsNum(n) == << <<n>> >>
\* a string where a boolean or a number is expected
WrongType == <<"string", "x">>
\* typeof x === "boolean"
IsBoolean(x) == x # Undefined /\ Len(x) = 1
\* typeof ts === "number"
IsNumber(ts) == ts # Undefined /\ Len(ts) = 1 /\ ts[1] # <<>>
\* ts === null || typeof ts === "number"
IsNullOrNumber(ts) == ts # Undefined /\ Len(ts) = 1
\* viewState without the key `file`
NoFile == "<no file>"
Truthy(b) == b = Some(TRUE)

Modes == {"source", "preview"}
Cursors ==
  { [start |-> [line |-> 0, col |-> 0], end |-> [line |-> 0, col |-> 0]],
    [start |-> [line |-> 2, col |-> 5], end |-> [line |-> 3, col |-> 10]] }

\* interface TemporaryState: the empty object {}
EmptyState ==
  [cursor |-> Undefined, scroll |-> Undefined, viewState |-> Undefined,
   protected |-> Undefined, timestamp |-> Undefined]

\* { ...a, ...b }: the keys of b override those of a
Spread(a, b) ==
  [cursor    |-> IF b.cursor # Undefined THEN b.cursor ELSE a.cursor,
   scroll    |-> IF b.scroll # Undefined THEN b.scroll ELSE a.scroll,
   viewState |-> IF b.viewState # Undefined THEN b.viewState ELSE a.viewState,
   protected |-> IF b.protected # Undefined THEN b.protected ELSE a.protected,
   timestamp |-> IF b.timestamp # Undefined THEN b.timestamp ELSE a.timestamp]

VARIABLES
  \* ---- host (Obsidian workspace, vault and DOM) ----
  active,              \* path of the active markdown document, or Undefined
  hostCursor,          \* editor selection of the active view
  hostScroll,          \* raw scroll offset of the active view
  hostMode,            \* "source" | "preview" of the active view
  flashing,            \* a span.is-flashing element exists in the workspace
  layoutReady,         \* workspace.layoutReady
  mtime,               \* vault.adapter.stat(p).mtime per document
  \* ---- storage medium ----
  store,               \* content of getDbFilePath(p), Undefined when missing
  dirExists,           \* settings.dbDir exists
  \* ---- plugin fields ----
  phase,               \* "constructed" | "loaded" | "unloaded"
  lastTemporaryState,
  lastLoadedFileName,
  loadingFile,
  restorationPromise,  \* TRUE while this.restorationPromise is a pending promise
  timers,              \* pending setTimeout callbacks of the debouncer
  timeoutId,           \* the debouncer's timeoutId
  \* ---- asynchronous call frames ----
  evals,               \* checkTemporaryStateChanged evaluations
  toggle,              \* LockManager.toggleLockState call
  writes,              \* writeFileState calls started by the debounce timer
  startup,             \* restoreTemporaryState call
  activations,         \* file-open closures (path, layout-change handler)
  handlers,            \* layoutChangeHandler invocations in flight
  deferred,            \* onLayoutReady / requestAnimationFrame callbacks
  op,                  \* renameFile / deleteFile / direct writeFileState call
  \* ---- history (ghost) variables ----
  burst,               \* the debouncedSave calls since the timer last fired,
                       \* and what the expiry that ended the burst before found
  hist,                \* record of flags about what has happened so far
  observe              \* which history variables are kept (fixed by Init)

hostVars == <<active, hostCursor, hostScroll, hostMode, flashing, layoutReady, mtime>>
diskVars == <<store, dirExists>>
pluginVars == <<phase, lastTemporaryState, lastLoadedFileName, loadingFile,
                restorationPromise>>
timerVars == <<timers, timeoutId>>
frameVars == <<evals, toggle, writes, startup, activations, handlers, deferred, op>>
ghostVars == <<burst, hist, observe>>
vars == <<hostVars, diskVars, pluginVars, timerVars, frameVars, ghostVars>>


(***************************************************************************)
(* RecordStore: readFileState / writeFileState.                            *)
(* The store is indexed by document path: getDbFilePath(p) is              *)
(* dbDir + "/" + getFileHash(p) + ".json", one file per path.              *)
(***************************************************************************)

\* defaults for absent lock fields only (no typeof test)
ensureLockDefaultsAbsentOnly(rec) ==
  [rec EXCEPT !.protected = IF rec.protected = Undefined THEN Some(FALSE) ELSE @,
              !.timestamp = IF rec.timestamp = Undefined THEN TsNull ELSE @]

\* ensureLockDefaults (and the same defaulting in writeFileState)
ensureLockDefaults(rec) ==
  [rec EXCEPT !.protected = IF IsBoolean(rec.protected) THEN rec.protected ELSE Some(FALSE),
              !.timestamp = IF IsNullOrNumber(rec.timestamp) THEN rec.timestamp ELSE TsNull]

\* validateViewStateFile: FALSE when viewState.file is a string other than the path
validateViewStateFile(rec, expectedFilePath) ==
  \/ rec.viewState = Undefined
  \/ rec.viewState[1].file = NoFile
  \/ rec.viewState[1].file = expectedFilePath

\* stored content that JSON.parse rejects
Unparsable == <<"text", "not json">>

\* a read that tests the flashing span before it validates viewState.file
readFileStateFlashFirst(p) ==
  IF store[p] = Undefined \/ store[p] = Unparsable
  THEN [result |-> Undefined, disk |-> store[p]]
  ELSE LET parsedData == ensureLockDefaults(store[p][1])
           changedDefaults == parsedData # store[p][1]
       IN IF flashing
          THEN [result |-> Undefined, disk |-> store[p]]
          ELSE IF ~validateViewStateFile(parsedData, p)
               THEN LET corrected ==
                          [parsedData EXCEPT !.viewState =
                             Some([parsedData.viewState[1] EXCEPT !.file = p])]
                    IN [result |-> Some(corrected), disk |-> Some(corrected)]
               ELSE [result |-> Some(parsedData),
                     disk |-> IF changedDefaults THEN Some(parsedData) ELSE store[p]]

\* a read that returns the corrected viewState.file without writing it back
readFileStateNoWriteBack(p) ==
  IF store[p] = Undefined \/ store[p] = Unparsable
  THEN [result |-> Undefined, disk |-> store[p]]
  ELSE LET parsedData == ensureLockDefaults(store[p][1])
           changedDefaults == parsedData # store[p][1]
       IN IF ~validateViewStateFile(parsedData, p)
          THEN LET corrected ==
                     [parsedData EXCEPT !.viewState =
                        Some([parsedData.viewState[1] EXCEPT !.file = p])]
               IN [result |-> Some(corrected), disk |-> store[p]]
          ELSE IF ~flashing
               THEN [result |-> Some(parsedData),
                     disk |-> IF changedDefaults THEN Some(parsedData) ELSE store[p]]
               ELSE [result |-> Undefined, disk |-> store[p]]

\* readFileState(p): what it returns and what the file holds afterwards
\* (no file: null; JSON.parse throws: the catch block logs, null)
readFileState(p) ==
  IF store[p] = Undefined \/ store[p] = Unparsable
  THEN [result |-> Undefined, disk |-> store[p]]
  ELSE LET parsedData == ensureLockDefaults(store[p][1])
           changedDefaults == parsedData # store[p][1]
       IN IF ~validateViewStateFile(parsedData, p)
          THEN LET corrected ==
                     [parsedData EXCEPT !.viewState =
                        Some([parsedData.viewState[1] EXCEPT !.file = p])]
               IN [result |-> Some(corrected), disk |-> Some(corrected)]
          ELSE IF ~flashing
               THEN [result |-> Some(parsedData),
                     disk |-> IF changedDefaults THEN Some(parsedData) ELSE store[p]]
               ELSE [result |-> Undefined, disk |-> store[p]]

\* the store after a readFileState(p) (its repair write-back)
StoreAfterRead(p) == [store EXCEPT ![p] = readFileState(p).disk]

\* a store that keeps the records of all documents in one location
StoreAfterWriteOneSlot(p, state) ==
  [q \in Paths |-> IF q = p THEN Some(ensureLockDefaults(state)) ELSE Undefined]

\* a write that patches the record found instead of replacing it
StoreAfterWritePatch(p, state) ==
  [store EXCEPT ![p] =
     Some(ensureLockDefaults(IF store[p] = Undefined \/ store[p] = Unparsable
                             THEN state ELSE Spread(store[p][1], state)))]

\* the final adapter.write of writeFileState(p, state)
StoreAfterWrite(p, state) == [store EXCEPT ![p] = Some(ensureLockDefaults(state))]

LockFields(rec) == <<rec.protected, rec.timestamp>>
Ephemeral(rec) == <<rec.cursor, rec.scroll, rec.viewState>>

(***************************************************************************)
(* DebouncedWriter: debounce(cb, DELAY_WRITING_DB, true).                  *)
(* `timers` is the host's table of pending setTimeout callbacks created    *)
(* by the debouncer, each holding the arguments of its call.               *)
(***************************************************************************)

NoBurst == [n |-> 0, paths |-> {}, fired |-> Undefined]

\* (ghost) the burst of calls since the last expiry or cancel: their number,
\* counted up to MaxBurst, and the paths they name
BurstAfterCall(p) ==
  IF "burst" \in observe
  THEN [n |-> IF burst.n < MaxBurst THEN burst.n + 1 ELSE burst.n,
        paths |-> burst.paths \cup {p},
        fired |-> Undefined]
  ELSE burst

\* (ghost) the expiry of timer t ends the burst: whether t is the timer of the
\* last call, the size of the burst, and the number of timers left pending
BurstAfterFire(t) ==
  IF "burst" \in observe
  THEN [n |-> 0, paths |-> {},
        fired |-> Some([last |-> timeoutId = Some(t), n |-> burst.n,
                        paths |-> Cardinality(burst.paths),
                        left |-> Cardinality(timers \ {t})])]
  ELSE burst

ClearTimeout(id) == IF id = Undefined THEN timers ELSE timers \ {id[1]}

\* debouncedSave(filePath, state): clearTimeout(timeoutId); timeoutId = setTimeout(...)
debouncedSaveNoClear(p, s) ==
  /\ timers' = timers \cup {[path |-> p, state |-> s]}
  /\ timeoutId' = Some([path |-> p, state |-> s])
  /\ burst' = BurstAfterCall(p)

debouncedSave(p, s) ==
  /\ timers' = ClearTimeout(timeoutId) \cup {[path |-> p, state |-> s]}
  /\ timeoutId' = Some([path |-> p, state |-> s])
  /\ burst' = BurstAfterCall(p)

\* debouncedSave.cancel()
debouncedSaveCancel ==
  /\ timers' = ClearTimeout(timeoutId)
  /\ timeoutId' = Undefined
  /\ burst' = NoBurst

\* A write frame: writeFileState(path, state) started by the timer callback.
\* `stale` (ghost): a write for the same path that was started later, with a
\* different record, has landed.
WriteFrame(p, s) == [path |-> p, state |-> s, pc |-> "exists", stale |-> FALSE]

\* The timer expires: the callback runs `void this.writeFileState(filePath, state)`
\* up to its first await (adapter.exists(dbDir)).  The id of a timer that has
\* fired is inert (clearTimeout of it does nothing): it is dropped from timeoutId.
TimerFire(t) ==
  /\ t \in timers
  /\ Len(writes) < MaxWrites
  /\ timers' = timers \ {t}
  /\ timeoutId' = IF timeoutId = Some(t) THEN Undefined ELSE timeoutId
  /\ writes' = Append(writes, WriteFrame(t.path, t.state))
  /\ burst' = BurstAfterFire(t)
  /\ UNCHANGED <<hostVars, diskVars, pluginVars, evals, toggle, startup,
                 activations, handlers, deferred, hist, observe, op>>

\* adapter.exists(dbDir) resolves
WriteExists(i) ==
  /\ i \in 1..Len(writes)
  /\ writes[i].pc = "exists"
  /\ writes' = [writes EXCEPT ![i].pc = IF dirExists THEN "write" ELSE "mkdir"]
  /\ UNCHANGED <<hostVars, diskVars, pluginVars, timerVars, evals, toggle, startup,
                 activations, handlers, deferred, ghostVars, op>>

\* adapter.mkdir(dbDir) resolves
WriteMkdir(i) ==
  /\ i \in 1..Len(writes)
  /\ writes[i].pc = "mkdir"
  /\ dirExists' = TRUE
  /\ writes' = [writes EXCEPT ![i].pc = "write"]
  /\ UNCHANGED <<hostVars, store, pluginVars, timerVars, evals, toggle, startup,
                 activations, handlers, deferred, ghostVars, op>>

RemoveAt(seq, i) == [j \in 1..(Len(seq) - 1) |-> IF j < i THEN seq[j] ELSE seq[j + 1]]

\* adapter.write(dbFilePath, JSON.stringify(stateToSave)) lands; the frame ends.
\* Frames of the same path that were started earlier become stale.
WriteLand(i) ==
  /\ i \in 1..Len(writes)
  /\ writes[i].pc = "write"
  /\ store' = StoreAfterWrite(writes[i].path, writes[i].state)
  /\ writes' = RemoveAt([j \in 1..Len(writes) |->
                           IF "stale" \in observe /\ j < i
                              /\ writes[j].path = writes[i].path
                              /\ writes[j].state # writes[i].state
                           THEN [writes[j] EXCEPT !.stale = TRUE]
                           ELSE writes[j]], i)
  /\ hist' = [hist EXCEPT !.staleLanded = writes[i].stale,
                          !.seq = IF @ = Undefined THEN @
                                  ELSE Some([@[1] EXCEPT !.stage = "done"])]
  /\ UNCHANGED <<hostVars, dirExists, pluginVars, timerVars, evals, toggle, startup,
                 activations, handlers, deferred, burst, observe, op>>


(***************************************************************************)
(* ChangeDetector and capture.                                             *)
(***************************************************************************)

\* Number(scrollPos.toFixed(4)): raw offsets are in units of 0.00005, so the
\* result is the nearest even raw value (half rounds up)
toFixed4(raw) == ((raw + 1) \div 2) * 2

\* getTemporaryState() for a host with active view `act`, selection `cur`,
\* raw scroll `scr` and view mode `mode`
getTemporaryState(act, cur, scr, mode) ==
  IF act = Undefined
  THEN EmptyState
  ELSE [EmptyState EXCEPT
          !.viewState = Some([file |-> act[1], mode |-> mode]),
          !.scroll = Some(toFixed4(scr)),
          !.cursor = Some(cur)]

\* a comparison that takes a scroll of 0 for a scroll
HasScrollDefined(state) == state.scroll # Undefined

\* !!state.scroll
HasScroll(state) == state.scroll # Undefined /\ state.scroll[1] # 0

\* the JSON value null (a stored record may hold it as its viewState)
NullValue == [type |-> "null"]

\* !!state.viewState
HasViewState(state) == state.viewState # Undefined /\ state.viewState[1] # NullValue

isEmptyState(state) ==
  state.cursor = Undefined /\ ~HasScroll(state) /\ ~HasViewState(state)

\* JSON values with the insertion order of their keys: a string, an array,
\* an object (keys in insertion order, the value of each key)
Str(v) == [type |-> "string", v |-> v]
Arr(items) == [type |-> "array", items |-> items]
Obj(keys, vals) == [type |-> "object", keys |-> keys, vals |-> vals]

\* The text JSON.stringify produces for a value, as its sequence of tokens:
\* the keys of an object come in insertion order, the elements of an array
\* in index order.
RECURSIVE JSONtext(_), JSONitems(_, _)
JSONtext(v) ==
  CASE v.type = "string" -> <<"string", v.v>>
    [] v.type = "null" -> <<"null">>
    [] v.type = "array" ->
         <<"[">> \o JSONitems([i \in 1..Len(v.items) |-> JSONtext(v.items[i])], 1)
           \o <<"]">>
    [] v.type = "object" ->
         <<"{">> \o JSONitems([i \in 1..Len(v.keys) |->
                                 <<"key", v.keys[i]>> \o JSONtext(v.vals[v.keys[i]])], 1)
           \o <<"}">>
JSONitems(texts, i) ==
  IF i > Len(texts) THEN <<>> ELSE texts[i] \o JSONitems(texts, i + 1)

\* JSON.stringify(state.viewState): undefined for undefined.  A viewState
\* taken from view.getState() (a record [file, mode]) has its keys in one
\* order.
JSONstringify(viewState) ==
  IF viewState = Undefined THEN <<>>
  ELSE IF "type" \in DOMAIN viewState[1] THEN JSONtext(viewState[1])
  ELSE <<"{", "key", "file", "string", viewState[1].file,
              "key", "mode", "string", viewState[1].mode, "}">>

\* a comparison that looks at the right scroll only when the left state has
\* one
TemporaryStatesSameLeftScroll(left, right) ==
  IF left = Undefined /\ right = Undefined THEN TRUE
  ELSE IF left = Undefined \/ right = Undefined THEN FALSE
  ELSE LET l == left[1]
           r == right[1]
       IN IF isEmptyState(l) /\ isEmptyState(r) THEN TRUE
          ELSE IF isEmptyState(l) # isEmptyState(r) THEN FALSE
          ELSE IF (l.cursor # Undefined) # (r.cursor # Undefined) THEN FALSE
          ELSE IF l.cursor # Undefined /\ l.cursor[1] # r.cursor[1] THEN FALSE
          ELSE IF HasScroll(l) /\ l.scroll # r.scroll THEN FALSE
          ELSE JSONstringify(l.viewState) = JSONstringify(r.viewState)

\* TemporaryStatesSame(left, right) on optional states (Undefined is null)
TemporaryStatesSame(left, right) ==
  IF left = Undefined /\ right = Undefined THEN TRUE
  ELSE IF left = Undefined \/ right = Undefined THEN FALSE
  ELSE LET l == left[1]
           r == right[1]
       IN IF isEmptyState(l) /\ isEmptyState(r) THEN TRUE
          ELSE IF isEmptyState(l) # isEmptyState(r) THEN FALSE
          ELSE IF (l.cursor # Undefined) # (r.cursor # Undefined) THEN FALSE
          ELSE IF l.cursor # Undefined /\ l.cursor[1] # r.cursor[1] THEN FALSE
          ELSE IF HasScroll(l) # HasScroll(r) THEN FALSE
          ELSE IF HasScroll(l) /\ l.scroll # r.scroll THEN FALSE
          ELSE JSONstringify(l.viewState) = JSONstringify(r.viewState)

\* setTemporaryState(state), synchronous part: view.setState(state.viewState)
\* changes the view mode at once; cursor and scroll wait in onLayoutReady.
\* `vs` (ghost): the view state of this record has been handed to the host.
DeferredItem(state, view, rid) ==
  [kind |-> "layout", state |-> state, rid |-> rid, view |-> view,
   vs |-> view # Undefined /\ state.viewState # Undefined]

ModeAfterSetState(state, view, mode) ==
  IF view # Undefined /\ state.viewState # Undefined
  THEN state.viewState[1].mode
  ELSE mode

\* a state check that leaves the last snapshot as it is when it saves
performStateCheckKeepsLast(fileName, view, cur, scr, mode) ==
  LET state == getTemporaryState(view, cur, scr, mode)
      guardOk == /\ fileName # Undefined
                 /\ lastLoadedFileName # Undefined
                 /\ fileName = lastLoadedFileName
                 /\ ~loadingFile
      captured == guardOk /\ ~isEmptyState(state)
      last0 == IF lastTemporaryState = Undefined THEN Some(state) ELSE lastTemporaryState
      save == captured /\ ~TemporaryStatesSame(Some(state), last0)
  IN [captured |-> captured,
      save |-> save,
      state |-> state,
      last |-> IF ~captured THEN lastTemporaryState ELSE last0]

\* The outcome of performStateCheck() run against the given host values:
\* `fileName` is the path of the active file, `view` the path shown by the
\* active markdown view (Undefined when the active file has no such view).
performStateCheck(fileName, view, cur, scr, mode) ==
  LET state == getTemporaryState(view, cur, scr, mode)
      guardOk == /\ fileName # Undefined
                 /\ lastLoadedFileName # Undefined
                 /\ fileName = lastLoadedFileName
                 /\ ~loadingFile
      captured == guardOk /\ ~isEmptyState(state)
      last0 == IF lastTemporaryState = Undefined THEN Some(state) ELSE lastTemporaryState
      save == captured /\ ~TemporaryStatesSame(Some(state), last0)
  IN [captured |-> captured,
      save |-> save,
      state |-> state,
      last |-> IF ~captured THEN lastTemporaryState
               ELSE IF save THEN Some(state) ELSE last0]

\* saveTemporaryState(state) after `await this.readFileState(fileName)`:
\* the record handed to debouncedSave
MergeOnSave(existing, state) ==
  IF existing # Undefined
  THEN [Spread(existing[1], state) EXCEPT
          !.protected = IF IsBoolean(existing[1].protected)
                        THEN existing[1].protected ELSE @,
          !.timestamp = IF IsNullOrNumber(existing[1].timestamp)
                        THEN existing[1].timestamp ELSE @]
  ELSE IF lastTemporaryState # Undefined
       THEN [state EXCEPT !.protected = lastTemporaryState[1].protected,
                          !.timestamp = lastTemporaryState[1].timestamp]
       ELSE state

(***************************************************************************)
(* Initial states.                                                         *)
(***************************************************************************)

IdleEval == [pc |-> "idle", path |-> Undefined, state |-> EmptyState]
\* `n`: toggle commands run so far (capped by MaxToggles)
IdleToggle ==
  [pc |-> "idle", path |-> Undefined, state |-> EmptyState, next |-> FALSE, n |-> 0]
\* `delayMs`: the wait in progress when pc = "delay"
IdleStartup == [pc |-> "idle", attempt |-> 0, path |-> Undefined, delayMs |-> 0]
\* (ghost) the startup restoration so far: the attempts started, those that
\* found no active file, that threw, that completed; the reads issued, the
\* records handed to setTemporaryState, the notices shown; whether
\* restoreTemporaryState has returned
NoLog ==
  [attempts |-> 0, noFile |-> 0, threw |-> 0, completed |-> 0, reads |-> 0,
   applied |-> 0, notices |-> 0, done |-> FALSE]
\* `path`: the path whose record is read or removed; `to`: the path written
\* `pre`, `failed`, `flashed` (ghost): the store when the operation was called,
\* whether an adapter call of it has rejected, whether its read met the
\* span.is-flashing element
IdleOp ==
  [kind |-> "idle", pc |-> "idle", path |-> Undefined, to |-> Undefined,
   state |-> EmptyState, pre |-> Undefined, failed |-> FALSE, flashed |-> FALSE]
NoHist ==
  [staleLanded |-> FALSE, seq |-> Undefined,
   capture |-> Undefined, midRestoreCapture |-> FALSE, applied |-> Undefined,
   call |-> Undefined, calls |-> 0, lockTimes |-> {}, icon |-> Undefined,
   startup |-> NoLog]

\* The plugin object after construction (field initialisers of the class),
\* on a fresh vault: no record stored yet.
Constructed ==
  /\ hostCursor \in Cursors
  /\ hostScroll = 0
  /\ hostMode = "source"
  /\ flashing = FALSE
  /\ mtime = [p \in Paths |-> 1]
  /\ store = [p \in Paths |-> Undefined]
  /\ phase = "constructed"
  /\ lastTemporaryState = Undefined
  /\ lastLoadedFileName = Undefined
  /\ loadingFile = FALSE
  /\ restorationPromise = FALSE
  /\ timers = {}
  /\ timeoutId = Undefined
  /\ evals = [i \in 1..MaxEvals |-> IdleEval]
  /\ toggle = IdleToggle
  /\ writes = <<>>
  /\ startup = IdleStartup
  /\ activations = <<>>
  /\ handlers = <<>>
  /\ deferred = <<>>
  /\ op = IdleOp
  /\ burst = NoBurst
  /\ hist = NoHist

(***************************************************************************)
(* Frames in flight.                                                       *)
(***************************************************************************)

\* restoreTemporaryStateWithRetry(5)
MaxAttempts == 5
\* deferred onLayoutReady / requestAnimationFrame callbacks held at once
MaxDeferred == 1
\* layoutChangeHandler invocations suspended at once
MaxHandlers == 2

\* restoration sequences (read of a record, then applying it) that have started
\* and not finished: the startup restoration and layoutChangeHandler invocations
RestorationsInFlight ==
  (IF startup.pc = "read" THEN 1 ELSE 0) + Len(handlers)

OtherEvalsIdle(i) == \A j \in 1..MaxEvals : j # i => evals[j].pc = "idle"

\* (ghost) a save starts with a protected record stored and nothing else in flight
SeqStart(i) ==
  /\ "lock" \in observe
  /\ active # Undefined
  /\ store[active[1]] # Undefined
  /\ Truthy(store[active[1]][1].protected)
  /\ OtherEvalsIdle(i)
  /\ toggle.pc = "idle" /\ writes = <<>> /\ timers = {}
  /\ startup.pc = "idle" /\ handlers = <<>> /\ deferred = <<>>

\* (ghost) an operation other than the steps of the save under observation
Other(h) == [h EXCEPT !.seq = Undefined]

(***************************************************************************)
(* Host: the user and the workspace.                                       *)
(***************************************************************************)

UserMoveCursor(c) ==
  /\ active # Undefined
  /\ c # hostCursor
  /\ hostCursor' = c
  /\ hist' = Other(hist)
  /\ UNCHANGED <<active, hostScroll, hostMode, flashing, layoutReady, mtime,
                 diskVars, pluginVars, timerVars, frameVars, burst, observe>>

UserScroll(y) ==
  /\ active # Undefined
  /\ y # hostScroll
  /\ hostScroll' = y
  /\ hist' = Other(hist)
  /\ UNCHANGED <<active, hostCursor, hostMode, flashing, layoutReady, mtime,
                 diskVars, pluginVars, timerVars, frameVars, burst, observe>>

\* the user switches the view between editing and reading
UserSetMode(m) ==
  /\ active # Undefined
  /\ m # hostMode
  /\ hostMode' = m
  /\ hist' = Other(hist)
  /\ UNCHANGED <<active, hostCursor, hostScroll, flashing, layoutReady, mtime,
                 diskVars, pluginVars, timerVars, frameVars, burst, observe>>

\* a span.is-flashing element appears in / disappears from the workspace
Flash ==
  /\ flashing' = ~flashing
  /\ hist' = Other(hist)
  /\ UNCHANGED <<active, hostCursor, hostScroll, hostMode, layoutReady, mtime,
                 diskVars, pluginVars, timerVars, frameVars, burst, observe>>

(***************************************************************************)
(* onload, restoreTemporaryState, onunload.                                *)
(***************************************************************************)

\* a backoff that starts at 20 ms
delayMsFromTwenty(attempt) == 10 * 2^attempt

\* delayMs = 10 * Math.pow(2, attempt - 1)
delayMs(attempt) == 10 * 2^(attempt - 1)

\* host calls of the startup restoration may throw when "startup" is observed
StartupThrows == IF "startup" \in observe THEN BOOLEAN ELSE {FALSE}

\* how attempt k of restoreTemporaryStateWithRetry goes, up to its next await:
\* getActiveFile() throws; there is no active file; the file is already
\* loading; it is a new file, to be read; it is the file loaded before
AttemptOutcome(throws) ==
  IF throws THEN "threw"
  ELSE IF active = Undefined THEN "noFile"
  ELSE IF loadingFile /\ lastLoadedFileName = active THEN "skipped"
  ELSE IF lastLoadedFileName # active THEN "reading"
  ELSE "same"

\* (ghost) the log after attempt k has gone as `outcome` says ("applied",
\* "notFound": outcomes of the attempt after its read)
LogAfter(k, outcome) ==
  IF "startup" \notin observe THEN hist.startup
  ELSE LET log == hist.startup
           last == k = MaxAttempts
       IN [attempts |-> k,
           noFile |-> log.noFile + (IF outcome = "noFile" THEN 1 ELSE 0),
           threw |-> log.threw + (IF outcome = "threw" THEN 1 ELSE 0),
           completed |-> log.completed
              + (IF outcome \in {"skipped", "same", "applied", "notFound"}
                 THEN 1 ELSE 0),
           reads |-> log.reads + (IF outcome = "reading" THEN 1 ELSE 0),
           applied |-> log.applied + (IF outcome = "applied" THEN 1 ELSE 0),
           notices |-> log.notices + (IF outcome = "threw" /\ last THEN 1 ELSE 0),
           done |-> \/ outcome \in {"skipped", "same", "applied", "notFound"}
                    \/ outcome \in {"noFile", "threw"} /\ last]

\* a last catch block whose error leaves restoreTemporaryState: the flag is
\* reset, restorationPromise stays as it is
StartupCatchRaises(k) ==
  IF k < MaxAttempts
  THEN /\ startup' = [pc |-> "delay", attempt |-> k, path |-> Undefined,
                      delayMs |-> delayMs(k)]
       /\ restorationPromise' = TRUE
       /\ UNCHANGED loadingFile
  ELSE /\ loadingFile' = FALSE
       /\ startup' = IdleStartup
       /\ UNCHANGED restorationPromise

\* The catch block of attempt k: the next attempt after a delay, or, after the
\* last attempt, loadingFile = false and the error is thrown to
\* performRestoration, which shows the Notice and sets loadingFile = false;
\* restoreTemporaryState then sets restorationPromise = null.
StartupCatch(k) ==
  IF k < MaxAttempts
  THEN /\ startup' = [pc |-> "delay", attempt |-> k, path |-> Undefined,
                      delayMs |-> delayMs(k)]
       /\ restorationPromise' = TRUE
       /\ UNCHANGED loadingFile
  ELSE /\ loadingFile' = FALSE
       /\ startup' = IdleStartup
       /\ restorationPromise' = FALSE

\* One attempt of restoreTemporaryStateWithRetry, up to its next await.
StartupAttempt(k, throws) ==
  /\ hist' = [Other(hist) EXCEPT !.startup = LogAfter(k, AttemptOutcome(throws))]
  /\ CASE AttemptOutcome(throws) = "threw" ->
            /\ StartupCatch(k)
            /\ UNCHANGED <<lastLoadedFileName, lastTemporaryState>>
       [] AttemptOutcome(throws) = "noFile" ->
            /\ startup' = IF k < MaxAttempts
                          THEN [pc |-> "delay", attempt |-> k, path |-> Undefined,
                                delayMs |-> delayMs(k)]
                          ELSE IdleStartup
            /\ restorationPromise' = (k < MaxAttempts)
            /\ UNCHANGED <<loadingFile, lastLoadedFileName, lastTemporaryState>>
       [] AttemptOutcome(throws) = "skipped" ->
            /\ startup' = IdleStartup
            /\ restorationPromise' = FALSE
            /\ UNCHANGED <<loadingFile, lastLoadedFileName, lastTemporaryState>>
       [] AttemptOutcome(throws) = "reading" ->
            /\ loadingFile' = TRUE
            /\ lastTemporaryState' = Undefined
            /\ lastLoadedFileName' = active
            /\ startup' = [pc |-> "read", attempt |-> k, path |-> active,
                           delayMs |-> 0]
            /\ restorationPromise' = TRUE
       [] AttemptOutcome(throws) = "same" ->
            /\ loadingFile' = FALSE
            /\ startup' = IdleStartup
            /\ restorationPromise' = FALSE
            /\ UNCHANGED <<lastLoadedFileName, lastTemporaryState>>

\* onload(): the database directory is created, the handlers are registered,
\* the debouncer is created and restoreTemporaryState() is started.
Onload ==
  /\ phase = "constructed"
  /\ phase' = "loaded"
  /\ dirExists' = TRUE
  /\ \E throws \in StartupThrows : StartupAttempt(1, throws)
  /\ UNCHANGED <<hostVars, store, timerVars, evals, toggle, writes, activations,
                 handlers, deferred, burst, observe, op>>

\* `await this.delay(10 * 2^(attempt-1))` ends: the next attempt
StartupRetry ==
  /\ startup.pc = "delay"
  /\ \E throws \in StartupThrows : StartupAttempt(startup.attempt + 1, throws)
  /\ UNCHANGED <<hostVars, diskVars, phase, timerVars, evals, toggle, writes,
                 activations, handlers, deferred, burst, observe, op>>

\* the host call at which setTemporaryState(state) throws: none, its first
\* (getActiveViewOfType: nothing is applied), or its last (onLayoutReady: the
\* view state is applied, no callback is queued)
ThrowPoints == IF "startup" \in observe THEN {"none", "view", "ready"} ELSE {"none"}

\* `state = await this.readFileState(fileName)` resolves; the record is applied,
\* the attempt succeeds and restoreTemporaryState clears restorationPromise.
\* If setTemporaryState throws, the catch block of the attempt runs.
StartupRead ==
  /\ startup.pc = "read"
  /\ LET r == readFileState(startup.path[1])
         k == startup.attempt
     IN /\ store' = StoreAfterRead(startup.path[1])
        /\ IF r.result # Undefined
           THEN \E throwAt \in ThrowPoints :
                  /\ hostMode' = IF throwAt = "view" THEN hostMode
                                 ELSE ModeAfterSetState(r.result[1], active, hostMode)
                  /\ IF throwAt = "none"
                     THEN /\ Len(deferred) < MaxDeferred
                          /\ deferred' = Append(deferred,
                                 DeferredItem(r.result[1], active, "startup"))
                          /\ lastTemporaryState' = r.result
                          /\ loadingFile' = FALSE
                          /\ startup' = IdleStartup
                          /\ restorationPromise' = FALSE
                          /\ hist' = [Other(hist) EXCEPT
                                        !.startup = LogAfter(k, "applied")]
                     ELSE /\ StartupCatch(k)
                          /\ hist' = [Other(hist) EXCEPT
                                        !.startup = LogAfter(k, "threw")]
                          /\ UNCHANGED <<deferred, lastTemporaryState>>
           ELSE /\ lastTemporaryState' = r.result
                /\ loadingFile' = FALSE
                /\ startup' = IdleStartup
                /\ restorationPromise' = FALSE
                /\ hist' = [Other(hist) EXCEPT !.startup = LogAfter(k, "notFound")]
                /\ UNCHANGED <<hostMode, deferred>>
  /\ UNCHANGED <<active, hostCursor, hostScroll, flashing, layoutReady, mtime,
                 dirExists, phase, lastLoadedFileName, timerVars, evals, toggle,
                 writes, activations, handlers, burst, observe, op>>

\* onunload(): this.debouncedSave.cancel(); the host removes the registered
\* events, so no new change event or command reaches the plugin.
Onunload ==
  /\ phase = "loaded"
  /\ phase' = "unloaded"
  /\ debouncedSaveCancel
  /\ hist' = [Other(hist) EXCEPT !.capture = Undefined]
  /\ UNCHANGED <<hostVars, diskVars, lastTemporaryState, lastLoadedFileName,
                 loadingFile, restorationPromise, frameVars, observe>>

(***************************************************************************)
(* setTemporaryState: the deferred part.                                   *)
(***************************************************************************)

\* The onLayoutReady callback of setTemporaryState: the cursor is set through
\* the editor of the view that is active now; the scroll is left to a
\* requestAnimationFrame callback.
LayoutCallbackNoWait(i) ==
  /\ i \in 1..Len(deferred)
  /\ deferred[i].kind = "layout"
  /\ LET d == deferred[i]
         setsCursor == d.state.cursor # Undefined /\ active # Undefined
     IN /\ hostCursor' = IF setsCursor THEN d.state.cursor[1] ELSE hostCursor
        /\ deferred' = IF d.view # Undefined /\ d.state.scroll # Undefined
                       THEN [deferred EXCEPT ![i].kind = "raf"]
                       ELSE RemoveAt(deferred, i)
        /\ hist' = [Other(hist) EXCEPT !.applied =
                      IF setsCursor /\ "apply" \in observe
                      THEN Some([what |-> "cursor", ready |-> layoutReady,
                                 vsFirst |-> d.state.viewState = Undefined \/ d.vs])
                      ELSE @]
  /\ UNCHANGED <<active, hostScroll, hostMode, flashing, layoutReady, mtime,
                 diskVars, pluginVars, timerVars, evals, toggle, writes, startup,
                 activations, handlers, burst, observe, op>>

LayoutCallback(i) ==
  /\ layoutReady
  /\ LayoutCallbackNoWait(i)

\* requestAnimationFrame callback: view.setEphemeralState(state)
RafScroll(i) ==
  /\ i \in 1..Len(deferred)
  /\ deferred[i].kind = "raf"
  /\ hostScroll' = deferred[i].state.scroll[1]
  /\ deferred' = RemoveAt(deferred, i)
  /\ hist' = [Other(hist) EXCEPT !.applied =
                IF "apply" \in observe
                THEN Some([what |-> "scroll", ready |-> layoutReady,
                           vsFirst |-> deferred[i].state.viewState = Undefined
                                       \/ deferred[i].vs])
                ELSE @]
  /\ UNCHANGED <<active, hostCursor, hostMode, flashing, layoutReady, mtime,
                 diskVars, pluginVars, timerVars, evals, toggle, writes, startup,
                 activations, handlers, burst, observe, op>>

(***************************************************************************)
(* The file-open handler and the one-time layoutChangeHandler it registers. *)
(* `activations[k]` is the layoutChangeHandler registered by the k-th       *)
(* file-open event: its file and whether it is still registered;           *)
(* `handlers` are the invocations of such handlers suspended at an await.  *)
(***************************************************************************)

\* the selection of a document that has just been opened
TopCursor == CHOOSE c \in Cursors : c.start.line = 0

\* this.app.workspace.off("layout-change", layoutChangeHandler)
Off(regs, k) == [regs EXCEPT ![k].on = FALSE]

\* The host makes p the active document and triggers "file-open":
\* loadingFile = true; lastLoadedFileName = file.path; the handler is registered.
FileOpen(p) ==
  /\ phase = "loaded"
  /\ active # Some(p)
  /\ Len(activations) < MaxActivations
  /\ activations' = Append(activations, [file |-> p, on |-> TRUE])
  /\ active' = Some(p)
  /\ hostCursor' = TopCursor
  /\ hostScroll' = 0
  /\ loadingFile' = TRUE
  /\ lastLoadedFileName' = Some(p)
  /\ hist' = Other(hist)
  /\ UNCHANGED <<hostMode, flashing, layoutReady, mtime, diskVars, phase,
                 lastTemporaryState, restorationPromise, timerVars, evals, toggle,
                 writes, startup, handlers, deferred, burst, observe, op>>

\* registered handlers whose file is (is not) the file of the active view
Matching == {k \in 1..Len(activations) :
               activations[k].on /\ Some(activations[k].file) = active}
Mismatching == {k \in 1..Len(activations) :
                  activations[k].on /\ Some(activations[k].file) # active}

\* the invocations started by one "layout-change", each suspended at
\* `await this.readFileState(file.path)`
RECURSIVE Invocations(_)
Invocations(ks) ==
  IF ks = {} THEN <<>>
  ELSE LET k == CHOOSE x \in ks : \A y \in ks : x <= y
       IN <<[reg |-> k, file |-> activations[k].file, pc |-> "read",
             state |-> EmptyState]>> \o Invocations(ks \ {k})

\* The host triggers "layout-change".  Every registered layoutChangeHandler
\* runs up to its first await: on a file mismatch it clears loadingFile and
\* removes itself, otherwise it starts reading.  The plugin's own listener
\* (onLayoutChange) calls checkTemporaryStateChanged().
LayoutChange ==
  /\ Matching \cup Mismatching # {}
  /\ Len(handlers) + Cardinality(Matching) <= MaxHandlers
  /\ handlers' = handlers \o Invocations(Matching)
  /\ activations' = [k \in 1..Len(activations) |->
                       IF k \in Mismatching
                       THEN [activations[k] EXCEPT !.on = FALSE]
                       ELSE activations[k]]
  /\ loadingFile' = IF Mismatching # {} THEN FALSE ELSE loadingFile
  /\ evals' = IF phase = "loaded" /\ \E i \in 1..MaxEvals : evals[i].pc = "idle"
              THEN LET i == CHOOSE x \in 1..MaxEvals :
                              /\ evals[x].pc = "idle"
                              /\ \A y \in 1..(x - 1) : evals[y].pc # "idle"
                   IN [evals EXCEPT ![i].pc = "raf"]
              ELSE evals
  /\ hist' = Other(hist)
  /\ UNCHANGED <<hostVars, diskVars, phase, lastTemporaryState, lastLoadedFileName,
                 restorationPromise, timerVars, toggle, writes, startup, deferred,
                 burst, observe, op>>

\* an integrity check that passes when the document is at least as old as
\* the timestamp
verifyFileIntegrityNotNewer(filePath, expectedTimestamp) ==
  mtime[filePath] <= expectedTimestamp[1][1]

\* ChecksumIntegrity.verifyFileIntegrity(filePath, expectedTimestamp) when stat
\* succeeds: current === expectedTimestamp
verifyFileIntegrity(filePath, expectedTimestamp) ==
  TsNum(mtime[filePath]) = expectedTimestamp

\* iconState = integrityMismatch ? "corrupted"
\*                               : state.protected ? "locked" : "unlocked"
IconState(integrityMismatch, state) ==
  IF integrityMismatch THEN "corrupted"
  ELSE IF Truthy(state.protected) THEN "locked" ELSE "unlocked"

\* this.lockStatusBar.updateIcon(iconState) in the handler of `file` (kept when
\* "open" is observed): the icon shown, with the record, whether stat was
\* called and succeeded, and the modification time it met
IconAfterUpdate(file, state, stat) ==
  IF "open" \in observe
  THEN Some([iconState |-> IconState(/\ stat = "ok"
                                     /\ ~verifyFileIntegrity(file, state.timestamp),
                                     state),
             file |-> file, found |-> TRUE, state |-> state, stat |-> stat, mtime |-> mtime[file]])
  ELSE hist.icon

\* this.lockStatusBar.updateIcon("unlocked") when no record was found
IconNoRecord(file) ==
  IF "open" \in observe
  THEN Some([iconState |-> "unlocked", file |-> file, found |-> FALSE,
             state |-> EmptyState, stat |-> "none", mtime |-> mtime[file]])
  ELSE hist.icon

\* the outcomes of adapter.stat in the integrity check: it resolves, or (when
\* "open" is observed) it rejects or returns no mtime
StatOutcomes == IF "open" \in observe THEN {"ok", "failed"} ELSE {"ok"}

\* `state = await this.readFileState(file.path)` resolves in invocation i.
\* With a record: the integrity check (numeric timestamp) is awaited next, or
\* the icon is updated and revealLeaf is awaited.  Without one:
\* loadingFile = false, the handler is removed.
HandlerRead(i) ==
  /\ i \in 1..Len(handlers)
  /\ handlers[i].pc = "read"
  /\ LET r == readFileState(handlers[i].file)
     IN /\ store' = StoreAfterRead(handlers[i].file)
        /\ IF r.result # Undefined
           THEN /\ handlers' = [handlers EXCEPT
                       ![i].state = r.result[1],
                       ![i].pc = IF IsNumber(r.result[1].timestamp)
                                 THEN "verify" ELSE "reveal"]
                /\ hist' = [Other(hist) EXCEPT !.icon =
                              IF IsNumber(r.result[1].timestamp) THEN @
                              ELSE IconAfterUpdate(handlers[i].file, r.result[1],
                                                   "none")]
                /\ UNCHANGED <<loadingFile, activations>>
           ELSE /\ handlers' = RemoveAt(handlers, i)
                /\ loadingFile' = FALSE
                /\ activations' = Off(activations, handlers[i].reg)
                /\ hist' = [Other(hist) EXCEPT
                              !.icon = IconNoRecord(handlers[i].file)]
  /\ UNCHANGED <<hostVars, dirExists, phase, lastTemporaryState, lastLoadedFileName,
                 restorationPromise, timerVars, evals, toggle, writes, startup,
                 deferred, burst, observe, op>>

\* `await this.checksumIntegrity.verifyFileIntegrity(...)` resolves or throws
\* (the catch block logs): the icon is updated, revealLeaf is awaited next
HandlerVerify(i) ==
  /\ i \in 1..Len(handlers)
  /\ handlers[i].pc = "verify"
  /\ handlers' = [handlers EXCEPT ![i].pc = "reveal"]
  /\ \E stat \in StatOutcomes :
       hist' = [Other(hist) EXCEPT !.icon =
                  IconAfterUpdate(handlers[i].file, handlers[i].state, stat)]
  /\ UNCHANGED <<hostVars, diskVars, pluginVars, timerVars, evals, toggle, writes,
                 startup, activations, deferred, burst, observe, op>>

\* `await this.app.workspace.revealLeaf(...)` resolves: setTemporaryState(state),
\* loadingFile = false, the handler is removed.
HandlerReveal(i) ==
  /\ i \in 1..Len(handlers)
  /\ handlers[i].pc = "reveal"
  /\ Len(deferred) < MaxDeferred
  /\ hostMode' = ModeAfterSetState(handlers[i].state, active, hostMode)
  /\ deferred' = Append(deferred, DeferredItem(handlers[i].state, active, "open"))
  /\ loadingFile' = FALSE
  /\ activations' = Off(activations, handlers[i].reg)
  /\ handlers' = RemoveAt(handlers, i)
  /\ hist' = Other(hist)
  /\ UNCHANGED <<active, hostCursor, hostScroll, flashing, layoutReady, mtime,
                 diskVars, phase, lastTemporaryState, lastLoadedFileName,
                 restorationPromise, timerVars, evals, toggle, writes, startup,
                 burst, observe, op>>

\* the workspace signals that its layout is ready
LayoutReady ==
  /\ ~layoutReady
  /\ layoutReady' = TRUE
  /\ hist' = Other(hist)
  /\ UNCHANGED <<active, hostCursor, hostScroll, hostMode, flashing, mtime,
                 diskVars, pluginVars, timerVars, frameVars, burst, observe>>

(***************************************************************************)
(* checkTemporaryStateChanged: one evaluation per change event.            *)
(***************************************************************************)

\* any of editor-change, layout-change, active-leaf-change, mouseup, keyup,
\* scroll: checkTemporaryStateChanged() queues a requestAnimationFrame callback
ChangeEvent(i) ==
  /\ phase = "loaded"
  /\ evals[i].pc = "idle"
  /\ \A j \in 1..(i - 1) : evals[j].pc # "idle"
  /\ evals' = [evals EXCEPT ![i].pc = "raf"]
  /\ hist' = Other(hist)
  /\ UNCHANGED <<hostVars, diskVars, pluginVars, timerVars, toggle, writes, startup,
                 activations, handlers, deferred, burst, observe, op>>

\* the tail of the evaluation: this.performStateCheck(), and, if it saves,
\* saveTemporaryState(state) up to `await this.readFileState(fileName)`
RunStateCheck(i, mode, h) ==
  LET r == performStateCheck(active, active, hostCursor, hostScroll, mode)
  IN /\ lastTemporaryState' = r.last
     /\ evals' = [evals EXCEPT ![i] =
                    IF r.save
                    THEN [pc |-> "mergeRead", path |-> active, state |-> r.state]
                    ELSE IdleEval]
     /\ hist' = [h EXCEPT
          !.capture = IF "capture" \notin observe THEN @
                      ELSE IF r.captured
                      THEN Some([path |-> active[1], state |-> r.state])
                      ELSE Undefined,
          !.midRestoreCapture = @ \/ (/\ "restore" \in observe
                                      /\ r.captured
                                      /\ RestorationsInFlight > 0),
          !.seq = IF r.save /\ SeqStart(i)
                  THEN Some([path |-> active[1],
                             lock |-> LockFields(store[active[1]][1]),
                             eph |-> Ephemeral(r.state),
                             stage |-> "saving"])
                  ELSE Undefined]

\* After the wait for restorationPromise: the lock-mode hook.  With an active
\* document, enforceReadOnlyMode(activePath) runs up to `await isFileLocked`;
\* without one, performStateCheck runs at once (and returns).
EvalProceed(i) ==
  IF active # Undefined
  THEN /\ evals' = [evals EXCEPT ![i] = [pc |-> "enfRead", path |-> active,
                                         state |-> EmptyState]]
       /\ hist' = Other(hist)
       /\ UNCHANGED lastTemporaryState
  ELSE RunStateCheck(i, hostMode, hist)

\* the requestAnimationFrame callback runs
EvalRaf(i) ==
  /\ evals[i].pc = "raf"
  /\ IF restorationPromise
     THEN /\ evals' = [evals EXCEPT ![i].pc = "waitRestore"]
          /\ hist' = Other(hist)
          /\ UNCHANGED lastTemporaryState
     ELSE EvalProceed(i)
  /\ UNCHANGED <<hostVars, diskVars, phase, lastLoadedFileName, loadingFile,
                 restorationPromise, timerVars, toggle, writes, startup,
                 activations, handlers, deferred, burst, observe, op>>

\* `await this.restorationPromise` resolves
EvalRestoreDone(i) ==
  /\ evals[i].pc = "waitRestore"
  /\ ~restorationPromise
  /\ EvalProceed(i)
  /\ UNCHANGED <<hostVars, diskVars, phase, lastLoadedFileName, loadingFile,
                 restorationPromise, timerVars, toggle, writes, startup,
                 activations, handlers, deferred, burst, observe, op>>

\* enforceReadOnlyMode after `await this.isFileLocked(filePath)`: TRUE when the
\* view has to be switched to preview
MustEnforce(result) ==
  /\ result # Undefined
  /\ Truthy(result[1].protected)
  /\ hostMode # "preview"

\* toRestore = { cursor: ephemeral.cursor, scroll: ephemeral.scroll }
ToRestore ==
  LET e == getTemporaryState(active, hostCursor, hostScroll, hostMode)
  IN [EmptyState EXCEPT !.cursor = e.cursor, !.scroll = e.scroll]

\* isFileLocked resolves inside the evaluation's enforceReadOnlyMode
EvalEnforceRead(i) ==
  /\ evals[i].pc = "enfRead"
  /\ LET r == readFileState(evals[i].path[1])
         h == hist
     IN /\ store' = StoreAfterRead(evals[i].path[1])
        /\ IF MustEnforce(r.result)
           THEN /\ evals' = [evals EXCEPT ![i] = [pc |-> "enfSet", path |-> @.path,
                                                  state |-> ToRestore]]
                /\ hist' = Other(h)
                /\ UNCHANGED lastTemporaryState
           ELSE RunStateCheck(i, hostMode, h)
  /\ UNCHANGED <<hostVars, dirExists, phase, lastLoadedFileName, loadingFile,
                 restorationPromise, timerVars, toggle, writes, startup,
                 activations, handlers, deferred, burst, observe, op>>

\* `await active.setState({... mode: "preview"})` resolves: the view is in
\* preview, setTemporaryState(toRestore) is called, then performStateCheck runs
EvalEnforceSet(i) ==
  /\ evals[i].pc = "enfSet"
  /\ Len(deferred) < MaxDeferred
  /\ hostMode' = "preview"
  /\ deferred' = Append(deferred, DeferredItem(evals[i].state, active, "enforce"))
  /\ RunStateCheck(i, "preview", hist)
  /\ UNCHANGED <<active, hostCursor, hostScroll, flashing, layoutReady, mtime,
                 diskVars, phase, lastLoadedFileName, loadingFile,
                 restorationPromise, timerVars, toggle, writes, startup,
                 activations, handlers, burst, observe, op>>

\* saveTemporaryState after `await this.readFileState(fileName)`: merge, then
\* this.debouncedSave(fileName, merged)
EvalMergeRead(i) ==
  /\ evals[i].pc = "mergeRead"
  /\ LET r == readFileState(evals[i].path[1])
     IN /\ store' = StoreAfterRead(evals[i].path[1])
        /\ debouncedSave(evals[i].path[1], MergeOnSave(r.result, evals[i].state))
        /\ hist' = hist
  /\ evals' = [evals EXCEPT ![i] = IdleEval]
  /\ UNCHANGED <<hostVars, dirExists, pluginVars, toggle, writes, startup,
                 activations, handlers, deferred, observe, op>>

(***************************************************************************)
(* LockManager.toggleLockState (the command and the status-bar click).     *)
(***************************************************************************)

\* newState with the timestamp left as it was read
NewLockStateKeepsTimestamp(current, nextProtected, timestamp) ==
  [current EXCEPT !.protected = Some(nextProtected)]

\* newState = { ...current, protected: nextProtected, timestamp }
NewLockState(current, nextProtected, timestamp) ==
  [current EXCEPT !.protected = Some(nextProtected), !.timestamp = timestamp]

\* toggle commands in one behaviour (one more in SpecVault, where the
\* operations do not overlap: locking and unlocking)
ToggleCap == IF "vault" \in observe THEN MaxToggles + 1 ELSE MaxToggles

\* the toggle command has returned
ToggleDone == [IdleToggle EXCEPT !.n = toggle.n]

ToggleStart ==
  /\ phase = "loaded"
  /\ active # Undefined
  /\ toggle.pc = "idle"
  /\ toggle.n < ToggleCap
  /\ toggle' = [pc |-> "read", path |-> active, state |-> EmptyState, next |-> FALSE,
                n |-> toggle.n + 1]
  /\ hist' = Other(hist)
  /\ UNCHANGED <<hostVars, diskVars, pluginVars, timerVars, evals, writes, startup,
                 activations, handlers, deferred, burst, observe, op>>

\* `current = (await readFileState(filePath)) || {}` resolves.  Locking goes on
\* to stat the document; unlocking calls writeFileState at once.
ToggleRead ==
  /\ toggle.pc = "read"
  /\ LET r == readFileState(toggle.path[1])
         current == IF r.result = Undefined THEN EmptyState ELSE r.result[1]
         nextProtected == ~Truthy(current.protected)
     IN /\ store' = StoreAfterRead(toggle.path[1])
        /\ toggle' = IF nextProtected
                     THEN [toggle EXCEPT !.pc = "stat", !.state = current,
                                         !.next = TRUE]
                     ELSE [toggle EXCEPT !.pc = "wexists", !.next = FALSE,
                                         !.state = NewLockState(current, FALSE, TsNull)]
        /\ hist' = Other(hist)
  /\ UNCHANGED <<hostVars, dirExists, pluginVars, timerVars, evals, writes, startup,
                 activations, handlers, deferred, burst, observe, op>>

\* `timestamp = await integrity.getFileTimestamp(filePath)` resolves
ToggleStat ==
  /\ toggle.pc = "stat"
  /\ toggle' = [toggle EXCEPT !.pc = "wexists",
                  !.state = NewLockState(@, TRUE, TsNum(mtime[toggle.path[1]]))]
  /\ hist' = [Other(hist) EXCEPT !.lockTimes =
                IF "vault" \in observe THEN @ \cup {mtime[toggle.path[1]]} ELSE @]
  /\ UNCHANGED <<hostVars, diskVars, pluginVars, timerVars, evals, writes, startup,
                 activations, handlers, deferred, burst, observe, op>>

\* writeFileState(filePath, newState): adapter.exists(dbDir) resolves
ToggleWriteExists ==
  /\ toggle.pc = "wexists"
  /\ toggle' = [toggle EXCEPT !.pc = IF dirExists THEN "wwrite" ELSE "wmkdir"]
  /\ hist' = Other(hist)
  /\ UNCHANGED <<hostVars, diskVars, pluginVars, timerVars, evals, writes, startup,
                 activations, handlers, deferred, burst, observe, op>>

\* writeFileState(filePath, newState): adapter.mkdir(dbDir) resolves
ToggleWriteMkdir ==
  /\ toggle.pc = "wmkdir"
  /\ dirExists' = TRUE
  /\ toggle' = [toggle EXCEPT !.pc = "wwrite"]
  /\ hist' = Other(hist)
  /\ UNCHANGED <<hostVars, store, pluginVars, timerVars, evals, writes, startup,
                 activations, handlers, deferred, burst, observe, op>>

\* adapter.write lands and writeFileState returns: lastTemporaryState takes the
\* new lock fields; after locking, enforceReadOnlyMode(filePath) starts.
ToggleWriteLand ==
  /\ toggle.pc = "wwrite"
  /\ store' = StoreAfterWrite(toggle.path[1], toggle.state)
  /\ lastTemporaryState' =
       Some(Spread(IF lastTemporaryState = Undefined THEN EmptyState
                   ELSE lastTemporaryState[1], toggle.state))
  /\ toggle' = IF toggle.next /\ active = toggle.path
               THEN [toggle EXCEPT !.pc = "enfRead"]
               ELSE ToggleDone
  /\ hist' = Other(hist)
  /\ UNCHANGED <<hostVars, dirExists, phase, lastLoadedFileName, loadingFile,
                 restorationPromise, timerVars, evals, writes, startup, activations,
                 handlers, deferred, burst, observe, op>>

\* isFileLocked resolves inside the toggle's enforceReadOnlyMode
ToggleEnforceRead ==
  /\ toggle.pc = "enfRead"
  /\ LET r == readFileState(toggle.path[1])
     IN /\ store' = StoreAfterRead(toggle.path[1])
        /\ toggle' = IF MustEnforce(r.result)
                     THEN [toggle EXCEPT !.pc = "enfSet", !.state = ToRestore]
                     ELSE ToggleDone
        /\ hist' = Other(hist)
  /\ UNCHANGED <<hostVars, dirExists, pluginVars, timerVars, evals, writes, startup,
                 activations, handlers, deferred, burst, observe, op>>

\* `await active.setState({... mode: "preview"})` resolves in the toggle
ToggleEnforceSet ==
  /\ toggle.pc = "enfSet"
  /\ Len(deferred) < MaxDeferred
  /\ hostMode' = "preview"
  /\ deferred' = Append(deferred, DeferredItem(toggle.state, active, "enforce"))
  /\ toggle' = ToggleDone
  /\ hist' = Other(hist)
  /\ UNCHANGED <<active, hostCursor, hostScroll, flashing, layoutReady, mtime,
                 diskVars, pluginVars, timerVars, evals, writes, startup,
                 activations, handlers, burst, observe, op>>

(***************************************************************************)
(* RecordStore under adapter failures; renameFile, deleteFile and direct   *)
(* calls of readFileState / writeFileState / toggleLockState.              *)
(***************************************************************************)

\* the adapter call of a readFileState that rejects, if any ("read": exists
\* or read; "write": the repair write)
ReadFailures == {"none", "read", "write"}

\* readFileState(p) when the named adapter call rejects: the catch block logs
\* and null is returned.  (A rejected repair write leaves the file as it was.)
readFileStateIO(p, fail) ==
  IF fail = "read"
  THEN [result |-> Undefined, disk |-> store[p]]
  ELSE LET r == readFileState(p)
       IN IF fail = "write" /\ r.disk # store[p]
          THEN [result |-> Undefined, disk |-> store[p]]
          ELSE r

\* an adapter call of readFileState(p) rejects: exists or read when these
\* fail, write when the read has a repair to write back
Rejected(p, fail) ==
  \/ fail = "read"
  \/ fail = "write" /\ readFileState(p).disk # store[p]

\* deleteFile without its try block
CaughtByUnguardedDelete(f) ==
  CASE f.pc = "read" -> "readFileState"
    [] f.pc \in {"exists", "mkdir", "write"} -> "writeFileState"
    [] f.pc \in {"rmexists", "remove"} ->
         IF f.kind = "rename" THEN "renameFile" ELSE "none"

\* The function whose catch block handles a rejection of the await at which
\* frame f is suspended ("none": the rejection reaches the caller of the
\* operation).
CaughtBy(f) ==
  CASE f.pc = "read" -> "readFileState"
    [] f.pc \in {"exists", "mkdir", "write"} -> "writeFileState"
    [] f.pc \in {"rmexists", "remove"} ->
         IF f.kind = "rename" THEN "renameFile" ELSE "deleteFile"

\* (ghost) the call that has just returned, and the one that returned before
Returned(f, result, raised) ==
  IF "store" \in observe
  THEN [hist EXCEPT !.call = Some([kind |-> f.kind, path |-> f.path, to |-> f.to,
                                   state |-> f.state, pre |-> f.pre,
                                   failed |-> f.failed, flashed |-> f.flashed,
                                   result |-> result, raised |-> raised,
                                   prev |-> IF hist.call = Undefined THEN Undefined
                                            ELSE Some([hist.call[1] EXCEPT
                                                         !.prev = Undefined])]),
                    !.calls = @ + 1]
  ELSE hist

\* a frame of a RecordStore operation called with the store as it is now
OpFrame(kind, pc, path, to, state) ==
  [kind |-> kind, pc |-> pc, path |-> path, to |-> to, state |-> state,
   pre |-> IF "store" \in observe THEN Some(store) ELSE Undefined,
   failed |-> FALSE, flashed |-> FALSE]

\* await readFileState(p), called directly: one step (see the header)
CallReadFileState(p, fail) ==
  /\ op.kind = "idle"
  /\ LET r == readFileStateIO(p, fail)
         f == [OpFrame("read", "read", Some(p), Undefined, EmptyState)
                 EXCEPT !.failed = Rejected(p, fail), !.flashed = flashing]
     IN /\ store' = [store EXCEPT ![p] = r.disk]
        /\ hist' = Returned(f, r.result, FALSE)
  /\ UNCHANGED <<hostVars, dirExists, pluginVars, timerVars, frameVars, burst,
                 observe>>

\* writeFileState(p, state) called directly, up to `await adapter.exists(dbDir)`
CallWriteFileState(p, state) ==
  /\ op.kind = "idle"
  /\ op' = OpFrame("write", "exists", Undefined, Some(p), state)
  /\ UNCHANGED <<hostVars, diskVars, pluginVars, timerVars, evals, toggle, writes,
                 startup, activations, handlers, deferred, ghostVars>>

\* the vault triggers "rename": renameFile(file, oldPath) up to
\* `await this.readFileState(oldPath)`
CallRenameFile(newPath, oldPath) ==
  /\ op.kind = "idle"
  /\ newPath # oldPath
  /\ op' = OpFrame("rename", "read", Some(oldPath), Some(newPath), EmptyState)
  /\ UNCHANGED <<hostVars, diskVars, pluginVars, timerVars, evals, toggle, writes,
                 startup, activations, handlers, deferred, ghostVars>>

\* the vault triggers "delete": deleteFile(file) up to
\* `await adapter.exists(dbFilePath)`
CallDeleteFile(p) ==
  /\ op.kind = "idle"
  /\ op' = OpFrame("delete", "rmexists", Some(p), Undefined, EmptyState)
  /\ UNCHANGED <<hostVars, diskVars, pluginVars, timerVars, evals, toggle, writes,
                 startup, activations, handlers, deferred, ghostVars>>

\* The await of the frame rejects.  The rejection is caught by the innermost
\* enclosing try: inside writeFileState the write is given up and a rename
\* goes on to remove the old file; in renameFile / deleteFile the operation
\* ends; with no enclosing try the operation raises to its caller.
OpReject ==
  /\ op.kind # "idle"
  /\ op.pc # "read"
  /\ LET f == [op EXCEPT !.failed = TRUE]
     IN IF CaughtBy(f) = "writeFileState" /\ f.kind = "rename"
        THEN /\ op' = [f EXCEPT !.pc = "rmexists"]
             /\ hist' = hist
        ELSE /\ op' = IdleOp
             /\ hist' = Returned(f, Undefined, CaughtBy(f) = "none")
  /\ UNCHANGED <<hostVars, diskVars, pluginVars, timerVars, evals, toggle, writes,
                 startup, activations, handlers, deferred, burst, observe>>

\* renameFile: `oldState = await this.readFileState(oldPath)` resolves (the
\* read may have met a rejecting adapter call, which it turns into null)
OpRenameRead(fail) ==
  /\ op.kind = "rename"
  /\ op.pc = "read"
  /\ LET r == readFileStateIO(op.path[1], fail)
         f == [op EXCEPT !.failed = Rejected(op.path[1], fail),
                         !.flashed = flashing]
     IN /\ store' = [store EXCEPT ![op.path[1]] = r.disk]
        /\ IF r.result # Undefined
           THEN /\ op' = [f EXCEPT !.pc = "exists", !.state = r.result[1]]
                /\ hist' = hist
           ELSE /\ op' = IdleOp
                /\ hist' = Returned(f, Undefined, FALSE)
  /\ UNCHANGED <<hostVars, dirExists, pluginVars, timerVars, evals, toggle, writes,
                 startup, activations, handlers, deferred, burst, observe>>

\* writeFileState: adapter.exists(dbDir) resolves
OpWriteExists ==
  /\ op.pc = "exists"
  /\ op' = [op EXCEPT !.pc = IF dirExists THEN "write" ELSE "mkdir"]
  /\ UNCHANGED <<hostVars, diskVars, pluginVars, timerVars, evals, toggle, writes,
                 startup, activations, handlers, deferred, ghostVars>>

\* writeFileState: adapter.mkdir(dbDir) resolves
OpWriteMkdir ==
  /\ op.pc = "mkdir"
  /\ dirExists' = TRUE
  /\ op' = [op EXCEPT !.pc = "write"]
  /\ UNCHANGED <<hostVars, store, pluginVars, timerVars, evals, toggle, writes,
                 startup, activations, handlers, deferred, ghostVars>>

\* writeFileState: adapter.write lands and writeFileState returns; renameFile
\* goes on to `await adapter.exists(oldDbFilePath)`
OpWriteLand ==
  /\ op.pc = "write"
  /\ store' = StoreAfterWrite(op.to[1], op.state)
  /\ IF op.kind = "rename"
     THEN /\ op' = [op EXCEPT !.pc = "rmexists"]
          /\ hist' = hist
     ELSE /\ op' = IdleOp
          /\ hist' = Returned(op, Undefined, FALSE)
  /\ UNCHANGED <<hostVars, dirExists, pluginVars, timerVars, evals, toggle, writes,
                 startup, activations, handlers, deferred, burst, observe>>

\* renameFile / deleteFile: adapter.exists(dbFilePath) resolves
OpRemoveExists ==
  /\ op.pc = "rmexists"
  /\ IF store[op.path[1]] # Undefined
     THEN /\ op' = [op EXCEPT !.pc = "remove"]
          /\ hist' = hist
     ELSE /\ op' = IdleOp
          /\ hist' = Returned(op, Undefined, FALSE)
  /\ UNCHANGED <<hostVars, diskVars, pluginVars, timerVars, evals, toggle, writes,
                 startup, activations, handlers, deferred, burst, observe>>

\* renameFile / deleteFile: adapter.remove(dbFilePath) resolves
OpRemove ==
  /\ op.pc = "remove"
  /\ store' = [store EXCEPT ![op.path[1]] = Undefined]
  /\ op' = IdleOp
  /\ hist' = Returned(op, Undefined, FALSE)
  /\ UNCHANGED <<hostVars, dirExists, pluginVars, timerVars, evals, toggle, writes,
                 startup, activations, handlers, deferred, burst, observe>>

\* toggleLockState(p) called directly (as the status bar and the command do
\* for the active document), up to `await this.plugin.readFileState(filePath)`
CallToggleLockState(p) ==
  /\ toggle.pc = "idle"
  /\ toggle.n < MaxToggles
  /\ toggle' = [pc |-> "read", path |-> Some(p), state |-> EmptyState,
                next |-> FALSE, n |-> toggle.n + 1]
  /\ hist' = Other(hist)
  /\ UNCHANGED <<hostVars, diskVars, pluginVars, timerVars, evals, writes, startup,
                 activations, handlers, deferred, burst, observe, op>>

\* `integrity.getFileTimestamp(filePath)` throws (stat rejects or returns no
\* mtime): the catch block sets timestamp = null and the toggle goes on
ToggleStatFail ==
  /\ toggle.pc = "stat"
  /\ toggle' = [toggle EXCEPT !.pc = "wexists",
                  !.state = NewLockState(@, TRUE, TsNull)]
  /\ hist' = Other(hist)
  /\ UNCHANGED <<hostVars, diskVars, pluginVars, timerVars, evals, writes, startup,
                 activations, handlers, deferred, burst, observe, op>>

(***************************************************************************)
(* The vault: the open document is modified, renamed or deleted.           *)
(***************************************************************************)

\* the open document is written to (by the editor or from outside)
Modify ==
  /\ active # Undefined
  /\ mtime[active[1]] < MaxMtime
  /\ mtime' = [mtime EXCEPT ![active[1]] = @ + 1]
  /\ hist' = Other(hist)
  /\ UNCHANGED <<active, hostCursor, hostScroll, hostMode, flashing, layoutReady,
                 diskVars, pluginVars, timerVars, frameVars, burst, observe>>

\* The open document is renamed: the view follows the file, and the vault
\* triggers "rename": `void this.renameFile(file, oldPath)`.
VaultRename(newPath, oldPath) ==
  /\ phase = "loaded"
  /\ active = Some(oldPath)
  /\ newPath # oldPath
  /\ op.kind = "idle"
  /\ active' = Some(newPath)
  /\ mtime' = [mtime EXCEPT ![newPath] = mtime[oldPath]]
  /\ op' = OpFrame("rename", "read", Some(oldPath), Some(newPath), EmptyState)
  /\ hist' = Other(hist)
  /\ UNCHANGED <<hostCursor, hostScroll, hostMode, flashing, layoutReady, diskVars,
                 pluginVars, timerVars, evals, toggle, writes, startup, activations,
                 handlers, deferred, burst, observe>>

\* The open document is deleted: its view closes, and the vault triggers
\* "delete": `void this.deleteFile(file)`.
VaultDelete(p) ==
  /\ phase = "loaded"
  /\ active = Some(p)
  /\ op.kind = "idle"
  /\ active' = Undefined
  /\ op' = OpFrame("delete", "rmexists", Some(p), Undefined, EmptyState)
  /\ hist' = Other(hist)
  /\ UNCHANGED <<hostCursor, hostScroll, hostMode, flashing, layoutReady, mtime,
                 diskVars, pluginVars, timerVars, evals, toggle, writes, startup,
                 activations, handlers, deferred, burst, observe>>

(***************************************************************************)
(* SpecStore: the RecordStore and the lock manager called one operation at *)
(* a time (readFileState, writeFileState, renameFile, deleteFile,          *)
(* toggleLockState) on a vault whose database holds files of an earlier    *)
(* version or of another origin: lock fields missing or of a wrong type,   *)
(* viewState.file naming another document, content that is not JSON.  The  *)
(* plugin is loaded with no document open; adapter calls may reject and    *)
(* the span.is-flashing element comes and goes.                            *)
(***************************************************************************)

\* the records a database file found at start may hold
FoundRecords ==
  { [cursor |-> c, scroll |-> Some(2), viewState |-> v, protected |-> b,
     timestamp |-> t] :
      c \in {Some(CHOOSE x \in Cursors : x.start.line # 0)},
      v \in {Undefined} \cup { Some([file |-> f, mode |-> "source"]) : f \in Paths },
      b \in {Undefined, Some(TRUE), Some(FALSE), WrongType},
      t \in {Undefined, TsNull, TsNum(0), WrongType} }

\* the records handed to writeFileState(p, .) by the harness
WriteArgs(p) ==
  { [cursor |-> c, scroll |-> Some(0), viewState |-> v, protected |-> l[1],
     timestamp |-> l[2]] :
      c \in {Undefined, Some(CHOOSE x \in Cursors : x.start.line = 0)},
      v \in {Some([file |-> f, mode |-> "preview"]) : f \in {NoFile, p}},
      l \in { <<Undefined, Undefined>>, <<Some(TRUE), TsNum(1)>>,
              <<Some(FALSE), TsNull>>, <<WrongType, WrongType>> } }

\* the record of "B.md", left by the plugin itself
OwnRecord ==
  [cursor |-> Undefined, scroll |-> Some(0),
   viewState |-> Some([file |-> "B.md", mode |-> "source"]),
   protected |-> Some(TRUE), timestamp |-> TsNum(0)]

InitStore ==
  /\ hostCursor = CHOOSE c \in Cursors : c.start.line = 0
  /\ hostScroll = 0
  /\ hostMode = "source"
  /\ flashing = FALSE
  /\ mtime = [p \in Paths |-> 1]
  /\ store \in [Paths -> {Undefined, Unparsable, Some(OwnRecord)}
                          \cup { Some(r) : r \in FoundRecords }]
  /\ store["B.md"] \in {Undefined, Some(OwnRecord)}
  /\ phase = "loaded"
  /\ lastTemporaryState = Undefined
  /\ lastLoadedFileName = Undefined
  /\ loadingFile = FALSE
  /\ restorationPromise = FALSE
  /\ timers = {}
  /\ timeoutId = Undefined
  /\ evals = [i \in 1..MaxEvals |-> IdleEval]
  /\ toggle = IdleToggle
  /\ writes = <<>>
  /\ startup = IdleStartup
  /\ activations = <<>>
  /\ handlers = <<>>
  /\ deferred = <<>>
  /\ op = IdleOp
  /\ burst = NoBurst
  /\ hist = NoHist
  /\ active = Undefined
  /\ layoutReady = TRUE
  /\ dirExists = FALSE
  /\ observe = {"store"}

\* The harness calls one operation and then reads a record back: an
\* operation may start when no call has been made yet, a read when the last
\* call to return was not a read.
Sequential == op.kind = "idle" /\ toggle.pc = "idle"
MayCall == Sequential /\ hist.call = Undefined /\ toggle.n = 0
MayRead ==
  Sequential /\ (IF hist.call = Undefined THEN TRUE ELSE hist.call[1].kind # "read")

NextStore ==
  \/ Flash
  \/ \E p \in Paths, fail \in ReadFailures : MayRead /\ CallReadFileState(p, fail)
  \/ \E p \in Paths : \E state \in WriteArgs(p) :
       MayCall /\ CallWriteFileState(p, state)
  \/ \E p, q \in Paths : MayCall /\ CallRenameFile(p, q)
  \/ \E p \in Paths : MayCall /\ CallDeleteFile(p)
  \/ \E fail \in ReadFailures : OpRenameRead(fail)
  \/ OpReject
  \/ OpWriteExists
  \/ OpWriteMkdir
  \/ OpWriteLand
  \/ OpRemoveExists
  \/ OpRemove
  \/ \E p \in Paths : MayCall /\ CallToggleLockState(p)
  \/ ToggleRead
  \/ ToggleStat
  \/ ToggleStatFail
  \/ ToggleWriteExists
  \/ ToggleWriteMkdir
  \/ ToggleWriteLand

SpecStore == InitStore /\ [][NextStore]_vars

(***************************************************************************)
(* SpecDebounce: the DebouncedWriter alone, driven by direct calls of      *)
(* plugin.debouncedSave(path, state) and debouncedSave.cancel(), with no   *)
(* document active.  The database directory may be missing (onload only   *)
(* logs a failure to create it, and writeFileState creates it on demand). *)
(***************************************************************************)

\* the records handed to debouncedSave by the harness
SchedStates ==
  { [EmptyState EXCEPT !.cursor = Some(c), !.scroll = Some(0)] : c \in Cursors }

InitHarness ==
  /\ Constructed
  /\ hostCursor = CHOOSE c \in Cursors : c.start.line = 0
  /\ active = Undefined
  /\ layoutReady = TRUE
  /\ dirExists \in BOOLEAN

InitDebounce ==
  /\ InitHarness
  /\ observe = {"burst"}

CallDebouncedSave(p, s) ==
  /\ debouncedSave(p, s)
  /\ UNCHANGED <<hostVars, diskVars, pluginVars, frameVars, hist, observe>>

CallCancel ==
  /\ debouncedSaveCancel
  /\ UNCHANGED <<hostVars, diskVars, pluginVars, frameVars, hist, observe>>

NextDebounce ==
  \/ \E p \in Paths, s \in SchedStates : CallDebouncedSave(p, s)
  \/ CallCancel
  \/ \E t \in timers : TimerFire(t)
  \/ \E i \in 1..MaxWrites : WriteExists(i)
  \/ \E i \in 1..MaxWrites : WriteMkdir(i)
  \/ \E i \in 1..MaxWrites : WriteLand(i)

SpecDebounce == InitDebounce /\ [][NextDebounce]_vars

\* SpecWrites: the same harness, observing the order in which the writes land
InitWrites ==
  /\ InitHarness
  /\ observe = {"stale"}

SpecWrites == InitWrites /\ [][NextDebounce]_vars


(***************************************************************************)
(* Groups of steps shared by the specifications of the engine.  The engine *)
(* specifications hold one write frame of the debouncer at a time (the     *)
(* write is over long before the next 500 ms delay ends); overlapping      *)
(* write frames are explored in SpecDebounce and SpecWrites.               *)
(***************************************************************************)

EvalSteps ==
  \/ \E i \in 1..MaxEvals : ChangeEvent(i)
  \/ \E i \in 1..MaxEvals : EvalRaf(i)
  \/ \E i \in 1..MaxEvals : EvalRestoreDone(i)
  \/ \E i \in 1..MaxEvals : EvalEnforceRead(i)
  \/ \E i \in 1..MaxEvals : EvalMergeRead(i)

WriteSteps ==
  \/ \E t \in timers : writes = <<>> /\ TimerFire(t)
  \/ \E i \in 1..MaxWrites : WriteExists(i)
  \/ \E i \in 1..MaxWrites : WriteLand(i)

ApplySteps ==
  \/ \E i \in 1..MaxDeferred : LayoutCallback(i)
  \/ \E i \in 1..MaxDeferred : RafScroll(i)

(***************************************************************************)
(* Spec: the save path and the lock manager on one active, loaded          *)
(* document.  The plugin is enabled on a fresh vault while "A.md" is open  *)
(* and the workspace layout is ready.                                      *)
(***************************************************************************)

InitLoaded ==
  /\ Constructed
  /\ active = Some("A.md")
  /\ layoutReady = TRUE
  /\ dirExists = FALSE

Init ==
  /\ InitLoaded
  /\ observe = {"lock"}

Next ==
  \/ Onload
  \/ StartupRead
  \/ \E c \in Cursors : UserMoveCursor(c)
  \/ Flash
  \/ EvalSteps
  \/ \E i \in 1..MaxEvals : EvalEnforceSet(i)
  \/ ApplySteps
  \/ ToggleStart
  \/ ToggleRead
  \/ ToggleStat
  \/ ToggleWriteExists
  \/ ToggleWriteLand
  \/ ToggleEnforceRead
  \/ ToggleEnforceSet
  \/ WriteSteps

Spec == Init /\ [][Next]_vars

(***************************************************************************)
(* SpecVault: the save path and the lock manager on the open document of a *)
(* fresh vault, while the document is modified, renamed (the vault's only  *)
(* document "A.md" becomes "B.md") or deleted.                             *)
(***************************************************************************)

InitVault ==
  /\ InitLoaded
  /\ observe = {"vault"}

\* no call of the plugin is in flight (a debounced write may be pending)
Calm ==
  /\ \A i \in 1..MaxEvals : evals[i].pc = "idle"
  /\ toggle.pc = "idle"
  /\ op.kind = "idle"
  /\ writes = <<>>
  /\ startup.pc = "idle"
  /\ deferred = <<>>

\* One operation after another: a change event, a toggle, a rename, a delete
\* or the expiry of the debounce timer starts when the operation before it
\* has returned; the span.is-flashing element comes and goes at any time.
NextVault ==
  \/ Onload
  \/ StartupRead
  \/ \E c \in Cursors : Calm /\ UserMoveCursor(c)
  \/ Flash
  \/ Calm /\ Modify
  \/ Calm /\ VaultRename("B.md", "A.md")
  \/ \E p \in Paths : Calm /\ VaultDelete(p)
  \/ OpRenameRead("none")
  \/ OpWriteExists
  \/ OpWriteLand
  \/ OpRemoveExists
  \/ OpRemove
  \/ \E i \in 1..MaxEvals : Calm /\ ChangeEvent(i)
  \/ \E i \in 1..MaxEvals : EvalRaf(i)
  \/ \E i \in 1..MaxEvals : EvalEnforceRead(i)
  \/ \E i \in 1..MaxEvals : EvalEnforceSet(i)
  \/ \E i \in 1..MaxEvals : EvalMergeRead(i)
  \/ ApplySteps
  \/ Calm /\ ToggleStart
  \/ ToggleRead
  \/ ToggleStat
  \/ ToggleWriteExists
  \/ ToggleWriteLand
  \/ ToggleEnforceRead
  \/ ToggleEnforceSet
  \/ \E t \in timers : Calm /\ TimerFire(t)
  \/ \E i \in 1..MaxWrites : WriteExists(i)
  \/ \E i \in 1..MaxWrites : WriteLand(i)

SpecVault == InitVault /\ [][NextVault]_vars

(***************************************************************************)
(* SpecSave: change detection and saving on one active document, from      *)
(* enabling the plugin to disabling it; no lock is ever set.               *)
(***************************************************************************)

InitSave ==
  /\ InitLoaded
  /\ observe = {"capture"}

NextSave ==
  \/ Onload
  \/ StartupRead
  \/ Onunload
  \/ \E c \in Cursors : UserMoveCursor(c)
  \/ \E y \in 0..MaxScroll : UserScroll(y)
  \/ \E m \in Modes : UserSetMode(m)
  \/ EvalSteps
  \/ WriteSteps

SpecSave == InitSave /\ [][NextSave]_vars

(***************************************************************************)
(* SpecRestore: restoration at startup and on document activation.  The    *)
(* vault holds the record of "A.md" left by an earlier session (locked, in *)
(* preview); the plugin is enabled with "A.md" open or with no document    *)
(* open yet.                                                               *)
(***************************************************************************)

PriorRecord ==
  [cursor |-> Some(CHOOSE c \in Cursors : c.start.line # 0),
   scroll |-> Some(2),
   viewState |-> Some([file |-> "A.md", mode |-> "preview"]),
   protected |-> Some(TRUE),
   timestamp |-> TsNum(1)]

InitRestore ==
  /\ hostCursor = TopCursor
  /\ hostScroll = 0
  /\ hostMode = "source"
  /\ flashing = FALSE
  /\ mtime = [p \in Paths |-> 1]
  /\ store = [p \in Paths |-> IF p = "A.md" THEN Some(PriorRecord) ELSE Undefined]
  /\ phase = "constructed"
  /\ lastTemporaryState = Undefined
  /\ lastLoadedFileName = Undefined
  /\ loadingFile = FALSE
  /\ restorationPromise = FALSE
  /\ timers = {}
  /\ timeoutId = Undefined
  /\ evals = [i \in 1..MaxEvals |-> IdleEval]
  /\ toggle = IdleToggle
  /\ writes = <<>>
  /\ startup = IdleStartup
  /\ activations = <<>>
  /\ handlers = <<>>
  /\ deferred = <<>>
  /\ op = IdleOp
  /\ burst = NoBurst
  /\ hist = NoHist
  /\ active \in {Undefined, Some("A.md")}
  /\ layoutReady = TRUE
  /\ dirExists = TRUE
  /\ observe = {"restore"}

NextRestore ==
  \/ Onload
  \/ StartupRetry
  \/ StartupRead
  \/ \E p \in Paths : FileOpen(p)
  \/ LayoutChange
  \/ \E i \in 1..MaxHandlers : HandlerRead(i)
  \/ \E i \in 1..MaxHandlers : HandlerVerify(i)
  \/ \E i \in 1..MaxHandlers : HandlerReveal(i)
  \/ EvalSteps
  \/ \E i \in 1..MaxEvals : EvalEnforceSet(i)
  \/ ApplySteps
  \/ WriteSteps

SpecRestore == InitRestore /\ [][NextRestore]_vars

(***************************************************************************)
(* SpecApply: setTemporaryState alone, driven by direct calls of           *)
(* plugin.setTemporaryState(state), before and after the workspace signals *)
(* that its layout is ready, with and without an active markdown view.     *)
(***************************************************************************)

\* the records handed to setTemporaryState by the harness
RestoreStates ==
  { [EmptyState EXCEPT !.cursor = c, !.scroll = y, !.viewState = v] :
      c \in {Undefined, Some(CHOOSE x \in Cursors : x.start.line # 0)},
      y \in {Undefined, Some(0), Some(2)},
      v \in {Undefined, Some([file |-> "A.md", mode |-> "preview"])} }

InitApply ==
  /\ Constructed
  /\ hostCursor = TopCursor
  /\ active \in {Undefined, Some("A.md")}
  /\ layoutReady = FALSE
  /\ dirExists = TRUE
  /\ observe = {"apply"}

CallSetTemporaryState(state) ==
  /\ Len(deferred) < MaxDeferred
  /\ hostMode' = ModeAfterSetState(state, active, hostMode)
  /\ deferred' = Append(deferred, DeferredItem(state, active, "call"))
  /\ hist' = Other(hist)
  /\ UNCHANGED <<active, hostCursor, hostScroll, flashing, layoutReady, mtime,
                 diskVars, pluginVars, timerVars, evals, toggle, writes, startup,
                 activations, handlers, burst, observe, op>>

NextApply ==
  \/ \E state \in RestoreStates : CallSetTemporaryState(state)
  \/ LayoutReady
  \/ ApplySteps

SpecApply == InitApply /\ [][NextApply]_vars

(***************************************************************************)
(* validateDatabase (the "Validate database" command and settings button). *)
(* In SpecValidate the storage root is indexed by file name, as            *)
(* adapter.list(dbDir) reports it, and one iteration of the loop over the  *)
(* listed files (read, parse, exists, remove) is one step.                 *)
(***************************************************************************)

\* the files found in the storage root: name and extension
DbFiles ==
  { [stem |-> "k1", ext |-> "json"], [stem |-> "k2", ext |-> "json"],
    [stem |-> "k3", ext |-> "JSON"], [stem |-> "k4", ext |-> "json"],
    [stem |-> "readme", ext |-> "txt"] }

\* f.toLowerCase().endsWith(".json"), compared without folding the case
IsJsonNameExact(f) == f.ext = "json"

\* f.toLowerCase().endsWith(".json")
IsJsonName(f) ==
  (CASE f.ext = "JSON" -> "json" [] OTHER -> f.ext) = "json"

\* stored JSON that is not an object (`null`, a number, a string)
NotAnObject == <<"json", "null">>

\* a stored object whose viewState.file is the string file
RecordOf(file) ==
  [EmptyState EXCEPT !.viewState = Some([file |-> file, mode |-> "source"])]

\* what the files of the storage root may hold: no JSON, JSON that is no
\* object, an object without viewState, with a viewState without file, with
\* the empty string, or with the path of a document
DbContents ==
  {Unparsable, NotAnObject, Some(EmptyState)}
    \cup { Some(RecordOf(file)) : file \in {NoFile, ""} \cup Paths }

\* notePath of a stored content: viewState.file if isParsedStateMinimal
\* and the field is a string, else undefined
NotePath(content) ==
  IF content \in {Unparsable, NotAnObject} THEN Undefined
  ELSE IF content[1].viewState = Undefined THEN Undefined
  ELSE IF content[1].viewState[1].file = NoFile THEN Undefined
  ELSE Some(content[1].viewState[1].file)

NoReport ==
  [total |-> 0, fixedViewStatePath |-> 0, removedMissingNote |-> 0,
   removedInvalidEntry |-> 0, errors |-> 0]

\* the adapter calls of one iteration that may reject
EntryFailures == {"none", "read", "remove", "exists"}

\* the files of the listing in the order the adapter reports them (one
\* fixed order: the iterations do not depend on one another)
RECURSIVE Listing(_)
Listing(S) ==
  IF S = {} THEN <<>>
  ELSE LET f == CHOOSE x \in S : TRUE
       IN <<f>> \o Listing(S \ {f})

\* validateDatabase() up to `await adapter.exists(dbDir)`; `notes` are the
\* documents of the vault while the pass runs.  `seen` (ghost): how the pass
\* has left each file.
CallValidateDatabase(notes) ==
  /\ op.kind = "idle"
  /\ op' = [kind |-> "validate", pc |-> "exists", notes |-> notes,
            files |-> <<>>, report |-> NoReport, notices |-> <<>>,
            pre |-> store, seen |-> [f \in DbFiles |-> "untouched"]]
  /\ UNCHANGED <<hostVars, diskVars, pluginVars, timerVars, evals, toggle, writes,
                 startup, activations, handlers, deferred, ghostVars>>

\* adapter.exists(dbDir) resolves
ValidateExists ==
  /\ op.kind = "validate"
  /\ op.pc = "exists"
  /\ op' = IF dirExists
           THEN [op EXCEPT !.pc = "list"]
           ELSE [op EXCEPT !.pc = "done", !.notices = <<"directory not found">>]
  /\ UNCHANGED <<hostVars, diskVars, pluginVars, timerVars, evals, toggle, writes,
                 startup, activations, handlers, deferred, ghostVars>>

\* adapter.list(dbDir) resolves (or rejects: the outer catch block gives the
\* "Validation failed" notice); the listing is filtered by extension
ValidateList(rejects) ==
  /\ op.kind = "validate"
  /\ op.pc = "list"
  /\ op' = IF rejects
           THEN [op EXCEPT !.pc = "done", !.notices = <<"failed">>]
           ELSE [op EXCEPT !.pc = "entry",
                           !.files = Listing({f \in DbFiles :
                                                store[f] # Undefined /\ IsJsonName(f)})]
  /\ UNCHANGED <<hostVars, diskVars, pluginVars, timerVars, evals, toggle, writes,
                 startup, activations, handlers, deferred, ghostVars>>

\* One iteration of `for (const dbFilePath of files)`; the adapter call
\* named by fail rejects if the iteration reaches it.  `changed` is never
\* set (parsed.viewState.file is notePath itself), so nothing is written back.
ValidateEntry(fail) ==
  /\ op.kind = "validate"
  /\ op.pc = "entry"
  /\ op.files # <<>>
  /\ LET f == Head(op.files)
         notePath == NotePath(store[f])
         counted == [op EXCEPT !.files = Tail(op.files), !.report.total = @ + 1]
         error == [counted EXCEPT !.report.errors = @ + 1, !.seen[f] = "error"]
     IN IF fail = "read"
        THEN op' = error /\ store' = store
        ELSE IF notePath = Undefined \/ notePath = Some("")
        THEN IF fail = "remove"
             THEN op' = error /\ store' = store
             ELSE /\ op' = [counted EXCEPT !.report.removedInvalidEntry = @ + 1,
                                          !.seen[f] = "invalid"]
                  /\ store' = [store EXCEPT ![f] = Undefined]
        ELSE IF fail = "exists"
        THEN op' = error /\ store' = store
        ELSE IF notePath[1] \notin op.notes
        THEN IF fail = "remove"
             THEN op' = error /\ store' = store
             ELSE /\ op' = [counted EXCEPT !.report.removedMissingNote = @ + 1,
                                          !.seen[f] = "missing"]
                  /\ store' = [store EXCEPT ![f] = Undefined]
        ELSE op' = [counted EXCEPT !.seen[f] = "kept"] /\ store' = store
  /\ UNCHANGED <<hostVars, dirExists, pluginVars, timerVars, evals, toggle, writes,
                 startup, activations, handlers, deferred, ghostVars>>

\* the loop has ended: the Notice with the report
ValidateReport ==
  /\ op.kind = "validate"
  /\ op.pc = "entry"
  /\ op.files = <<>>
  /\ op' = [op EXCEPT !.pc = "done", !.notices = <<"completed">>]
  /\ UNCHANGED <<hostVars, diskVars, pluginVars, timerVars, evals, toggle, writes,
                 startup, activations, handlers, deferred, ghostVars>>

InitValidate ==
  /\ hostCursor = CHOOSE c \in Cursors : c.start.line = 0
  /\ hostScroll = 0
  /\ hostMode = "source"
  /\ flashing = FALSE
  /\ mtime = [p \in Paths |-> 1]
  /\ store \in [DbFiles -> DbContents]
  /\ store[[stem |-> "k4", ext |-> "json"]] \in {Unparsable, Some(EmptyState)}
  /\ store[[stem |-> "readme", ext |-> "txt"]] = Some(RecordOf("B.md"))
  /\ phase = "loaded"
  /\ lastTemporaryState = Undefined
  /\ lastLoadedFileName = Undefined
  /\ loadingFile = FALSE
  /\ restorationPromise = FALSE
  /\ timers = {}
  /\ timeoutId = Undefined
  /\ evals = [i \in 1..MaxEvals |-> IdleEval]
  /\ toggle = IdleToggle
  /\ writes = <<>>
  /\ startup = IdleStartup
  /\ activations = <<>>
  /\ handlers = <<>>
  /\ deferred = <<>>
  /\ op = IdleOp
  /\ burst = NoBurst
  /\ hist = NoHist
  /\ active = Undefined
  /\ layoutReady = TRUE
  /\ dirExists = TRUE
  /\ observe = {}

NextValidate ==
  \/ \E notes \in {{}, {"A.md"}} : CallValidateDatabase(notes)
  \/ ValidateExists
  \/ \E rejects \in BOOLEAN : ValidateList(rejects)
  \/ \E fail \in EntryFailures : ValidateEntry(fail)
  \/ ValidateReport

SpecValidate == InitValidate /\ [][NextValidate]_vars

(***************************************************************************)
(* SpecCompare: TemporaryStatesSame alone, called once by the harness on   *)
(* two states (or null) drawn from CompareStates.                          *)
(***************************************************************************)

\* selections that differ from the first in exactly one of the four fields
CompareCursors ==
  { [start |-> [line |-> 2 + a, col |-> 5 + b], end |-> [line |-> 3 + c, col |-> 10 + d]] :
      <<a, b, c, d>> \in { <<0, 0, 0, 0>>, <<1, 0, 0, 0>>, <<0, 1, 0, 0>>,
                           <<0, 0, 1, 0>>, <<0, 0, 0, 1>> } }

\* view states: the same pairs in two key orders, another value, the same
\* array in two element orders, a nested object in two key orders and with
\* another nested value
CompareViewStates ==
  LET md == Str("markdown")
      f == Str("a.md")
      nested(keys, mode) ==
        Obj(<<"type", "state">>,
            [k \in {"type", "state"} |->
               IF k = "type" THEN md
               ELSE Obj(keys, [j \in {"mode", "source"} |->
                                 IF j = "mode" THEN Str(mode) ELSE Str("true")])])
      tabs(items) ==
        Obj(<<"type", "tabs">>,
            [k \in {"type", "tabs"} |-> IF k = "type" THEN md ELSE Arr(items)])
      pairs(keys, type) ==
        Obj(keys, [k \in {"type", "file"} |-> IF k = "type" THEN type ELSE f])
  IN { pairs(<<"type", "file">>, md), pairs(<<"file", "type">>, md),
       pairs(<<"type", "file">>, Str("canvas")),
       tabs(<<Str("x"), Str("y")>>), tabs(<<Str("y"), Str("x")>>),
       nested(<<"mode", "source">>, "source"), nested(<<"source", "mode">>, "source"),
       nested(<<"mode", "source">>, "preview") }

\* the arguments of TemporaryStatesSame: null, or a state
CompareStates ==
  {Undefined} \cup
  { Some([cursor |-> c, scroll |-> y, viewState |-> v,
          protected |-> l[1], timestamp |-> l[2]]) :
      c \in {Undefined} \cup {Some(x) : x \in CompareCursors},
      y \in {Undefined, Some(0), Some(2), Some(4)},
      v \in {Undefined} \cup {Some(x) : x \in CompareViewStates},
      l \in {<<Undefined, Undefined>>, <<Some(TRUE), TsNum(1)>>} }

InitCompare ==
  /\ Constructed
  /\ hostCursor = TopCursor
  /\ active = Undefined
  /\ layoutReady = FALSE
  /\ dirExists = FALSE
  /\ observe = {}

\* plugin.TemporaryStatesSame(left, right)
CallTemporaryStatesSame(left, right) ==
  /\ op' = [kind |-> "compare", left |-> left, right |-> right,
            result |-> TemporaryStatesSame(left, right)]
  /\ UNCHANGED <<hostVars, diskVars, pluginVars, timerVars, evals, toggle, writes,
                 startup, activations, handlers, deferred, ghostVars>>

\* the harness makes one call
NextCompare ==
  /\ op.kind = "idle"
  /\ \E left \in CompareStates, right \in CompareStates :
       CallTemporaryStatesSame(left, right)

SpecCompare == InitCompare /\ [][NextCompare]_vars

(***************************************************************************)
(* SpecCheck: performStateCheck alone, called by the harness up to         *)
(* MaxChecks times in a row as the tail of change-event evaluations, on a  *)
(* plugin whose loading flag, last loaded path and last snapshot are drawn *)
(* by Init.  The active file may be one without a markdown view.           *)
(***************************************************************************)

\* the snapshot left by a toggle that found no record: lock fields only
LockOnlySnapshot ==
  [EmptyState EXCEPT !.protected = Some(TRUE), !.timestamp = TsNum(1)]

InitCheck ==
  /\ hostCursor = TopCursor
  /\ hostScroll = 0
  /\ hostMode = "source"
  /\ flashing = FALSE
  /\ mtime = [p \in Paths |-> 1]
  /\ store = [p \in Paths |-> Undefined]
  /\ phase = "loaded"
  /\ lastTemporaryState \in
       {Undefined, Some(LockOnlySnapshot),
        Some(getTemporaryState(Some("A.md"), TopCursor, 0, "source"))}
  /\ lastLoadedFileName \in {Undefined, Some("A.md")}
  /\ loadingFile \in BOOLEAN
  /\ restorationPromise = FALSE
  /\ timers = {}
  /\ timeoutId = Undefined
  /\ evals = [i \in 1..MaxEvals |-> IdleEval]
  /\ toggle = IdleToggle
  /\ writes = <<>>
  /\ startup = IdleStartup
  /\ activations = <<>>
  /\ handlers = <<>>
  /\ deferred = <<>>
  /\ op = IdleOp
  /\ burst = NoBurst
  /\ hist = NoHist
  /\ active = Undefined
  /\ layoutReady = TRUE
  /\ dirExists = FALSE
  /\ observe = {}

\* this.performStateCheck() with the host showing `fileName` (in a markdown
\* view or not), selection cur and raw scroll scr.  The frame keeps the
\* check: what it captured, the snapshot it compared with, whether it
\* called saveTemporaryState; `run` (ghost): the number of checks in a row
\* that captured this same state and the saves among them.
CallPerformStateCheck(fileName, hasView, cur, scr) ==
  /\ op.kind \in {"idle", "check"}
  /\ IF op.kind = "check" THEN op.n < MaxChecks ELSE TRUE
  /\ LET r == performStateCheck(fileName, IF hasView THEN fileName ELSE Undefined,
                                cur, scr, hostMode)
         n == IF op.kind = "check" THEN op.n + 1 ELSE 1
         go == IF op.kind = "check" THEN op.state = r.state ELSE FALSE
         saved == IF r.save THEN 1 ELSE 0
     IN /\ lastTemporaryState' = r.last
        /\ op' = [kind |-> "check", n |-> n, fileName |-> fileName,
                  state |-> r.state, last |-> lastTemporaryState,
                  save |-> r.save,
                  run |-> IF go THEN [len |-> op.run.len + 1,
                                      saves |-> op.run.saves + saved]
                          ELSE [len |-> 1, saves |-> saved]]
  /\ UNCHANGED <<hostVars, diskVars, phase, lastLoadedFileName, loadingFile,
                 restorationPromise, timerVars, evals, toggle, writes, startup,
                 activations, handlers, deferred, ghostVars>>

NextCheck ==
  \E fileName \in {Undefined, Some("A.md"), Some("B.md")}, hasView \in BOOLEAN,
     cur \in Cursors, scr \in {0, 2} :
    CallPerformStateCheck(fileName, hasView, cur, scr)

SpecCheck == InitCheck /\ [][NextCheck]_vars

(***************************************************************************)
(* SpecHash: getFileHash alone, called by the harness on paths of up to    *)
(* MaxPathLen UTF-16 code units, and called again on the same path.        *)
(***************************************************************************)

prime1 == 31
prime2 == 37
\* 0x7fffffff
Mask31 == 2147483647

\* the same step with `| 0` in place of the mask: a signed 32-bit value
HashStepSigned(hash, prime, char) ==
  LET low == (hash % 65536) * prime + char
      high == (hash \div 65536) * prime + (low \div 65536)
  IN IF high % 65536 >= 32768
     THEN ((high % 32768) - 32768) * 65536 + (low % 65536)
     ELSE (high % 32768) * 65536 + (low % 65536)

\* (hash * prime + char) & 0x7fffffff for 0 <= hash <= 0x7fffffff.  The
\* product is exact in a double; `&` keeps its low 31 bits.  Computed on
\* 16-bit limbs: the low limb of the product, and 15 bits of the rest.
HashStep(hash, prime, char) ==
  LET low == (hash % 65536) * prime + char
      high == (hash \div 65536) * prime + (low \div 65536)
  IN (high % 32768) * 65536 + (low % 65536)

\* the digits of Number.prototype.toString(36)
Digits36 ==
  <<"0", "1", "2", "3", "4", "5", "6", "7", "8", "9", "a", "b", "c", "d", "e",
    "f", "g", "h", "i", "j", "k", "l", "m", "n", "o", "p", "q", "r", "s", "t",
    "u", "v", "w", "x", "y", "z">>

\* n.toString(36) as its sequence of characters ("-" first when n < 0)
RECURSIVE toString36(_)
toString36(n) ==
  IF n < 0 THEN <<"-">> \o toString36(0 - n)
  ELSE IF n < 36 THEN <<Digits36[n + 1]>>
  ELSE toString36(n \div 36) \o <<Digits36[(n % 36) + 1]>>

\* hash1 or hash2 after the loop over the code units of filePath
RECURSIVE HashOf(_, _)
HashOf(filePath, prime) ==
  IF filePath = <<>> THEN 0
  ELSE HashStep(HashOf(SubSeq(filePath, 1, Len(filePath) - 1), prime), prime,
                filePath[Len(filePath)])

\* getFileHash(filePath): the two hashes and the three parts of the key
getFileHash(filePath) ==
  LET hash1 == HashOf(filePath, prime1)
      hash2 == HashOf(filePath, prime2)
  IN [hash1 |-> hash1, hash2 |-> hash2,
      parts |-> <<toString36(hash1), toString36(hash2), toString36(Len(filePath))>>,
      combined |-> toString36(hash1) \o toString36(hash2) \o toString36(Len(filePath))]

\* code units of the paths: "/", "a", a CJK character, 0xffff
CodeUnits == {47, 97, 20013, 65535}

RECURSIVE PathsUpTo(_)
PathsUpTo(n) ==
  IF n = 0 THEN {<<>>}
  ELSE LET shorter == PathsUpTo(n - 1)
       IN shorter \cup {Append(p, c) : p \in shorter, c \in CodeUnits}

InitHash ==
  /\ Constructed
  /\ hostCursor = TopCursor
  /\ active = Undefined
  /\ layoutReady = FALSE
  /\ dirExists \in BOOLEAN
  /\ observe = {}

\* plugin.getFileHash(filePath); `first` is what the call before returned
\* for this path (Undefined on a first call)
CallGetFileHash(filePath) ==
  /\ op' = [kind |-> "hash", filePath |-> filePath,
            result |-> getFileHash(filePath),
            first |-> IF op.kind = "hash" THEN Some(op.result.combined)
                      ELSE Undefined]
  /\ UNCHANGED <<hostVars, diskVars, pluginVars, timerVars, evals, toggle, writes,
                 startup, activations, handlers, deferred, ghostVars>>

\* the harness hashes a path, and hashes it once more
NextHash ==
  \/ op.kind = "idle" /\ \E filePath \in PathsUpTo(MaxPathLen) : CallGetFileHash(filePath)
  \/ op.kind = "hash" /\ op.first = Undefined /\ CallGetFileHash(op.filePath)

SpecHash == InitHash /\ [][NextHash]_vars

(***************************************************************************)
(* SpecOpen: one activation of "A.md" with lock mode enabled on a loaded   *)
(* plugin.  The database holds nothing for the document or a record with   *)
(* viewState, cursor and scroll whose lock fields are those of a locked,   *)
(* an unlocked or an old-version record; the document may be modified and  *)
(* stat may fail while the handler runs.                                   *)
(***************************************************************************)

\* the lock fields found on disk: [protected, timestamp]
OpenLockFields ==
  {<<Some(TRUE), TsNum(1)>>, <<Some(TRUE), TsNum(2)>>, <<Some(TRUE), TsNull>>,
   <<Some(FALSE), TsNull>>, <<Some(FALSE), TsNum(1)>>, <<Undefined, Undefined>>,
   <<WrongType, WrongType>>}

InitOpen ==
  /\ hostCursor = TopCursor
  /\ hostScroll = 0
  /\ hostMode = "source"
  /\ flashing = FALSE
  /\ mtime = [p \in Paths |-> 1]
  /\ \E lock \in OpenLockFields :
       store \in {[p \in Paths |-> Undefined],
                  [p \in Paths |->
                     IF p = "A.md"
                     THEN Some([PriorRecord EXCEPT !.protected = lock[1],
                                                   !.timestamp = lock[2]])
                     ELSE Undefined]}
  /\ phase = "loaded"
  /\ lastTemporaryState = Undefined
  /\ lastLoadedFileName = Undefined
  /\ loadingFile = FALSE
  /\ restorationPromise = FALSE
  /\ timers = {}
  /\ timeoutId = Undefined
  /\ evals = [i \in 1..MaxEvals |-> IdleEval]
  /\ toggle = IdleToggle
  /\ writes = <<>>
  /\ startup = IdleStartup
  /\ activations = <<>>
  /\ handlers = <<>>
  /\ deferred = <<>>
  /\ op = IdleOp
  /\ burst = NoBurst
  /\ hist = NoHist
  /\ active = Undefined
  /\ layoutReady = TRUE
  /\ dirExists = TRUE
  /\ observe = {"open", "apply"}

NextOpen ==
  \/ FileOpen("A.md")
  \/ LayoutChange
  \/ \E i \in 1..MaxHandlers : HandlerRead(i)
  \/ \E i \in 1..MaxHandlers : HandlerVerify(i)
  \/ \E i \in 1..MaxHandlers : HandlerReveal(i)
  \/ ApplySteps
  \/ Modify

SpecOpen == InitOpen /\ [][NextOpen]_vars

(***************************************************************************)
(* SpecStartup: the startup restoration with host calls that may throw.    *)
(* The plugin is enabled with "A.md" open or with no document open; the    *)
(* user opens documents while restoreTemporaryState waits, and change      *)
(* events arrive.                                                          *)
(***************************************************************************)

InitStartup ==
  /\ hostCursor = TopCursor
  /\ hostScroll = 0
  /\ hostMode = "source"
  /\ flashing = FALSE
  /\ mtime = [p \in Paths |-> 1]
  /\ store = [p \in Paths |-> IF p = "A.md" THEN Some(PriorRecord) ELSE Undefined]
  /\ phase = "constructed"
  /\ lastTemporaryState = Undefined
  /\ lastLoadedFileName = Undefined
  /\ loadingFile = FALSE
  /\ restorationPromise = FALSE
  /\ timers = {}
  /\ timeoutId = Undefined
  /\ evals = [i \in 1..MaxEvals |-> IdleEval]
  /\ toggle = IdleToggle
  /\ writes = <<>>
  /\ startup = IdleStartup
  /\ activations = <<>>
  /\ handlers = <<>>
  /\ deferred = <<>>
  /\ op = IdleOp
  /\ burst = NoBurst
  /\ hist = NoHist
  /\ active \in {Undefined, Some("A.md")}
  /\ layoutReady = TRUE
  /\ dirExists = TRUE
  /\ observe = {"startup"}

NextStartup ==
  \/ Onload
  \/ StartupRetry
  \/ StartupRead
  \/ \E p \in Paths : FileOpen(p)
  \/ LayoutChange
  \/ \E i \in 1..MaxHandlers : HandlerRead(i)
  \/ \E i \in 1..MaxHandlers : HandlerVerify(i)
  \/ \E i \in 1..MaxHandlers : HandlerReveal(i)
  \/ EvalSteps
  \/ \E i \in 1..MaxEvals : EvalEnforceSet(i)
  \/ ApplySteps

SpecStartup == InitStartup /\ [][NextStartup]_vars

\* The startup restoration while "A.md" is opened and restored by its
\* activation, without change events; the host runs the timer of `delay` and
\* resolves the read.
NextStartupLive ==
  \/ Onload
  \/ StartupRetry
  \/ StartupRead
  \/ FileOpen("A.md")
  \/ LayoutChange
  \/ \E i \in 1..MaxHandlers : HandlerRead(i)
  \/ \E i \in 1..MaxHandlers : HandlerVerify(i)
  \/ \E i \in 1..MaxHandlers : HandlerReveal(i)
  \/ ApplySteps

SpecStartupLive ==
  /\ InitStartup
  /\ [][NextStartupLive]_vars
  /\ WF_vars(StartupRetry)
  /\ WF_vars(StartupRead)

(***************************************************************************)
(* SpecScroll: verifyAndRetryScroll(view, targetScroll, 0) as the           *)
(* requestAnimationFrame callback of setTemporaryState calls it, against a *)
(* host whose scroll position moves at any moment and whose view may have  *)
(* no current mode.  `op` is the call: its target, the attempt, the await  *)
(* it is at, the requestAnimationFrame callbacks it has queued; (ghost)    *)
(* the reads and re-applications so far, the last position read, how the   *)
(* call returned.                                                          *)
(***************************************************************************)

\* const maxAttempts = 4
maxAttempts == 4

\* a retry test that allows one more attempt
MayRetryOnceMore(attempt) == attempt < maxAttempts

\* attempt < maxAttempts - 1
MayRetry(attempt) == attempt < maxAttempts - 1

\* scrollDifference <= allowedDifference, where scrollDifference is
\* Math.abs(currentScroll - targetScroll) and allowedDifference is
\* Math.max(targetScroll * tolerance, 2) with tolerance = 0.02 (both sides
\* taken 50 times to stay in the integers)
ScrollVerified(currentScroll, targetScroll) ==
  LET scrollDifference == IF currentScroll >= targetScroll
                          THEN currentScroll - targetScroll
                          ELSE targetScroll - currentScroll
      allowedTimes50 == IF targetScroll >= 2 * 50 THEN targetScroll ELSE 2 * 50
  IN scrollDifference * 50 <= allowedTimes50

\* targets: the top, one where the 2 px floor decides, two where 2 % decides
ScrollTargets == {0, 50, 150, 200}
\* positions of the host around the targets
ScrollPositions == {0, 2, 3, 47, 48, 53, 147, 148, 150, 153, 154, 196, 204, 205}

InitScroll ==
  /\ Constructed
  /\ hostCursor = TopCursor
  /\ active = Some("A.md")
  /\ layoutReady = TRUE
  /\ dirExists = TRUE
  /\ observe = {}

ScrollFrame(targetScroll, attempt, pc) ==
  [kind |-> "scroll", targetScroll |-> targetScroll, attempt |-> attempt,
   pc |-> pc, rafs |-> 0, reads |-> 0, reapplied |-> 0, last |-> Undefined,
   returned |-> "no"]

\* void this.verifyAndRetryScroll(view, state.scroll, 0): up to
\* `await this.delay(30)`
CallVerifyAndRetryScroll(targetScroll) ==
  /\ op' = ScrollFrame(targetScroll, 0, "delay")
  /\ UNCHANGED <<hostVars, diskVars, pluginVars, timerVars, evals, toggle, writes,
                 startup, activations, handlers, deferred, ghostVars>>

\* `await this.delay(30)` ends: view.currentMode?.getScroll() is read (it is
\* undefined when the view has no current mode) and compared; on a mismatch
\* the re-application is queued and `await this.delay(retryDelay)` follows
\* while MayRetry holds, else the position is accepted.
ScrollVerify(hasMode) ==
  /\ op.pc = "delay"
  /\ LET currentScroll == IF hasMode THEN Some(hostScroll) ELSE Undefined
         frame == [op EXCEPT !.reads = @ + 1, !.last = currentScroll]
     IN op' = IF currentScroll = Undefined
              THEN [frame EXCEPT !.pc = "done", !.returned = "noScroll"]
              ELSE IF ScrollVerified(currentScroll[1], op.targetScroll)
              THEN [frame EXCEPT !.pc = "done", !.returned = "verified"]
              ELSE IF MayRetry(op.attempt)
              THEN [frame EXCEPT !.pc = "retryDelay", !.rafs = @ + 1,
                                 !.reapplied = @ + 1]
              ELSE [frame EXCEPT !.pc = "done", !.returned = "accepted"]
  /\ UNCHANGED <<hostVars, diskVars, pluginVars, timerVars, evals, toggle, writes,
                 startup, activations, handlers, deferred, ghostVars>>

\* a queued requestAnimationFrame callback runs:
\* view.currentMode.applyScroll(targetScroll) if the view has that method
ScrollReapply(hasApplyScroll) ==
  /\ op.rafs > 0
  /\ op' = [op EXCEPT !.rafs = @ - 1]
  /\ hostScroll' = IF hasApplyScroll THEN op.targetScroll ELSE hostScroll
  /\ UNCHANGED <<active, hostCursor, hostMode, flashing, layoutReady, mtime,
                 diskVars, pluginVars, timerVars, evals, toggle, writes, startup,
                 activations, handlers, deferred, ghostVars>>

\* `await this.delay(retryDelay)` ends:
\* await this.verifyAndRetryScroll(view, targetScroll, attempt + 1), up to its
\* `await this.delay(30)`
ScrollRetry ==
  /\ op.pc = "retryDelay"
  /\ op' = [op EXCEPT !.pc = "delay", !.attempt = @ + 1]
  /\ UNCHANGED <<hostVars, diskVars, pluginVars, timerVars, evals, toggle, writes,
                 startup, activations, handlers, deferred, ghostVars>>

NextScroll ==
  \/ op.kind = "idle" /\ \E targetScroll \in ScrollTargets :
                           CallVerifyAndRetryScroll(targetScroll)
  \/ op.kind = "scroll" /\ \E hasMode \in BOOLEAN : ScrollVerify(hasMode)
  \/ op.kind = "scroll" /\ \E hasApplyScroll \in BOOLEAN : ScrollReapply(hasApplyScroll)
  \/ op.kind = "scroll" /\ ScrollRetry
  \/ op.kind = "scroll" /\ \E y \in ScrollPositions : UserScroll(y)

SpecScroll == InitScroll /\ [][NextScroll]_vars

\* the host runs the timers of `delay`
SpecScrollLive ==
  /\ SpecScroll
  /\ WF_vars(op.kind = "scroll" /\ \E hasMode \in BOOLEAN : ScrollVerify(hasMode))
  /\ WF_vars(op.kind = "scroll" /\ ScrollRetry)

(***************************************************************************)
(* Properties of the DebouncedWriter (SpecDebounce, SpecWrites).           *)
(***************************************************************************)

\* C3: at any time at most one debounced write is pending, and every expiry
\* of the timer starts one writeFileState call carrying the path and record
\* of the last debouncedSave call of the burst, leaving nothing pending:
\* the records of the earlier calls of the burst, whatever their path, are
\* discarded.
C3_SingleTimerLastCallWins ==
  /\ Cardinality(timers) <= 1
  /\ burst.fired # Undefined => (burst.fired[1].last /\ burst.fired[1].left = 0)

\* a burst of at least three calls naming both paths has expired
C3_BurstExpired ==
  /\ burst.fired # Undefined
  /\ burst.fired[1].n >= 3
  /\ burst.fired[1].paths = 2
  /\ burst.fired[1].last

\* C4: for one path, the write of a record scheduled earlier never lands
\* after the write of a (different) record scheduled later.
C4_OlderWriteNeverLandsLast == ~hist.staleLanded

(***************************************************************************)
(* Properties of the save path and the lock manager (Spec).                *)
(***************************************************************************)

\* the step of toggleLockState in which its writeFileState lands on path p
ToggleWrites(p) ==
  /\ toggle.pc = "wwrite"
  /\ toggle.path = Some(p)
  /\ toggle'.pc # "wwrite"

\* C1: once a record is stored with protected=true, its lock fields
\* (protected, timestamp) change only in the step in which a toggle of that
\* path writes; no save and no read changes them.
C1_LockFieldsChangeOnlyByToggle ==
  [][\A p \in Paths :
       (/\ store[p] # Undefined
        /\ Truthy(store[p][1].protected)
        /\ ~ToggleWrites(p))
       => (/\ store'[p] # Undefined
           /\ LockFields(store'[p][1]) = LockFields(store[p][1]))]_vars

\* C2: a save that starts on a stored record with protected=true and
\* timestamp=T while nothing else is in flight, followed by the expiry of the
\* timer and the write with no other operation in between, leaves
\* protected=true and timestamp=T stored, with the captured cursor, scroll
\* and viewState.
C2_SequentialSaveKeepsLock ==
  (hist.seq # Undefined /\ hist.seq[1].stage = "done")
  => LET p == hist.seq[1].path
     IN /\ store[p] # Undefined
        /\ LockFields(store[p][1]) = hist.seq[1].lock
        /\ Ephemeral(store[p][1]) = hist.seq[1].eph

\* C10: when the lock hook of a change event ends (the state check runs),
\* no toggle is under way and the record of the active document is stored
\* with protected=true, the view is in preview mode.
C10_ProtectedEndsInPreview ==
  [][\A i \in 1..MaxEvals :
       (/\ evals[i].pc \in {"enfRead", "enfSet"}
        /\ evals'[i].pc \notin {"enfRead", "enfSet"}
        /\ toggle.pc = "idle"
        /\ active # Undefined
        /\ store'[active[1]] # Undefined
        /\ Truthy(store'[active[1]][1].protected))
       => hostMode' = "preview"]_vars

(***************************************************************************)
(* Properties of change detection and saving (SpecSave).                   *)
(***************************************************************************)

\* nothing of the plugin is in flight or pending
Quiescent ==
  /\ \A i \in 1..MaxEvals : evals[i].pc = "idle"
  /\ timers = {}
  /\ writes = <<>>
  /\ startup.pc = "idle"
  /\ toggle.pc = "idle"
  /\ handlers = <<>>
  /\ deferred = <<>>

\* C5: when the plugin is loaded and has nothing left to do, the state
\* captured by the last change event is the stored state of its document
\* (cursor, scroll and viewState).
C5_LatestCaptureIsStored ==
  (phase = "loaded" /\ Quiescent /\ hist.capture # Undefined)
  => LET p == hist.capture[1].path
     IN /\ store[p] # Undefined
        /\ Ephemeral(store[p][1]) = Ephemeral(hist.capture[1].state)

\* C6: after onunload no debounced write is pending: none survives the
\* cancel and none is armed later.
C6_NothingArmedAfterUnload == phase = "unloaded" => timers = {}

(***************************************************************************)
(* Properties of restoration (SpecRestore, SpecApply).                     *)
(***************************************************************************)

\* C7: no state check captures the host state while a restoration (started
\* at startup or by a document activation) is in flight.
C7_NoCaptureDuringRestoration == ~hist.midRestoreCapture

\* C8: at most one restoration sequence is in flight.
C8_OneRestorationInFlight == RestorationsInFlight <= 1

IsRecord(p) == store[p] # Undefined /\ store[p] # Unparsable

\* the protected flag of the stored record of p (false when there is none)
StoredFlag(p) == IsRecord(p) /\ Truthy(store[p][1].protected)

\* C11: in the step in which toggleLockState(q) writes, with p the protected
\* flag of the stored record (false when no record exists), the record
\* stored afterwards has protected = not p; its timestamp is the document's
\* modification time (stat succeeded) or null (stat failed) when not p is
\* true, and null when not p is false.
C11_ToggleFlipsStoredFlag ==
  [][\A q \in Paths :
       ToggleWrites(q)
       => /\ store'[q] # Undefined
          /\ store'[q][1].protected = Some(~StoredFlag(q))
          /\ store'[q][1].timestamp \in
               (IF StoredFlag(q) THEN {TsNull} ELSE {TsNum(mtime[q]), TsNull})]_vars

\* C12: in the step in which toggleLockState(q) writes, the cursor, scroll
\* and viewState of the stored record of q stay as they are (absent when
\* there is no record), the records of the other paths are untouched, and
\* lastTemporaryState takes the protected and timestamp values written.
C12_ToggleChangesOnlyLockFields ==
  [][\A q \in Paths :
       ToggleWrites(q)
       => /\ store'[q] # Undefined
          /\ Ephemeral(store'[q][1]) =
               Ephemeral(IF IsRecord(q) THEN store[q][1] ELSE EmptyState)
          /\ \A r \in Paths \ {q} : store'[r] = store[r]
          /\ lastTemporaryState' # Undefined
          /\ LockFields(lastTemporaryState'[1]) = LockFields(store'[q][1])]_vars


\* a direct call of readFileState(p) has just returned, having met no
\* rejecting adapter call and no span.is-flashing element
ReadBack(p) ==
  /\ hist.call # Undefined
  /\ hist.call[1].kind = "read"
  /\ hist.call[1].path = Some(p)
  /\ ~hist.call[1].failed
  /\ ~hist.call[1].flashed

\* ... and the call before it was writeFileState(p, .), which met no
\* rejecting adapter call
WroteThenRead(p) ==
  /\ ReadBack(p)
  /\ hist.call[1].prev # Undefined
  /\ hist.call[1].prev[1].kind = "write"
  /\ hist.call[1].prev[1].to = Some(p)
  /\ ~hist.call[1].prev[1].failed

Misfiled(st, p) ==
  /\ st[p] # Undefined
  /\ st[p] # Unparsable
  /\ st[p][1].viewState # Undefined
  /\ st[p][1].viewState[1].file \notin {NoFile, p}

\* the last call was a readFileState(p) made while a span was flashing, on a
\* stored JSON object, and no adapter call rejected
FlashingRead(p) ==
  /\ hist.call # Undefined
  /\ hist.call[1].kind = "read"
  /\ hist.call[1].path = Some(p)
  /\ ~hist.call[1].failed
  /\ hist.call[1].flashed
  /\ hist.call[1].pre[1][p] \notin {Undefined, Unparsable}

\* C17 as stated: while a span is flashing readFileState(p) returns null
\* for every stored record, one whose viewState.file differs from p
\* included, and leaves the stored record as it was.
C17_FlashingReadReturnsNull ==
  \A p \in Paths :
    FlashingRead(p)
    => /\ hist.call[1].result = Undefined
       /\ store[p] = hist.call[1].pre[1][p]

\* C17 amended: while a span is flashing readFileState(p) returns null and
\* leaves the stored record as it was if the record's viewState.file is
\* absent or equal to p; a record whose viewState.file differs from p is
\* returned with file set to p and the lock defaults filled in, and is
\* stored so.
C17_FlashingReadNullUnlessMisfiled ==
  \A p \in Paths :
    FlashingRead(p)
    => IF Misfiled(hist.call[1].pre[1], p)
       THEN LET old == ensureLockDefaults(hist.call[1].pre[1][p][1])
                fixed == [old EXCEPT !.viewState =
                            Some([old.viewState[1] EXCEPT !.file = p])]
            IN /\ hist.call[1].result = Some(fixed)
               /\ store[p] = Some(fixed)
       ELSE /\ hist.call[1].result = Undefined
            /\ store[p] = hist.call[1].pre[1][p]

\* a record naming another document was read while a span was flashing
C17_MisfiledReadWhileFlashing ==
  /\ FlashingRead("A.md")
  /\ Misfiled(hist.call[1].pre[1], "A.md")
  /\ hist.call[1].result # Undefined

\* call c of a RecordStore operation returned to its caller; a read that
\* met a rejecting adapter call or unparsable content returned null
ReturnedNormally(c) ==
  /\ ~c.raised
  /\ (c.kind = "read" /\ (c.failed \/ c.pre[1][c.path[1]] = Unparsable))
       => c.result = Undefined

\* C18: whichever adapter call rejects (exists, read, write, mkdir, remove)
\* and whatever is stored, readFileState returns null and writeFileState,
\* renameFile and deleteFile return normally: no call raises to its caller.
C18_NoOperationRaises ==
  hist.call # Undefined
  => /\ ReturnedNormally(hist.call[1])
     /\ hist.call[1].prev # Undefined => ReturnedNormally(hist.call[1].prev[1])

\* a deleteFile whose adapter call rejected has returned
C18_FailedDeleteReturned ==
  /\ hist.call # Undefined
  /\ hist.call[1].kind = "delete"
  /\ hist.call[1].failed
  /\ hist.call[1].pre[1][hist.call[1].path[1]] # Undefined

\* C19: after renameFile(file with path newPath, oldPath) in which no adapter
\* call rejected, a record that was stored under oldPath is stored under
\* newPath with the same cursor, scroll, viewState content and lock fields
\* (the lock fields as readFileState reports them) and nothing is stored
\* under oldPath; if there was no record under oldPath the store is as it
\* was before.
C19_RenameMovesRecord ==
  (hist.call # Undefined /\ hist.call[1].kind = "rename" /\ ~hist.call[1].failed)
  => LET old == hist.call[1].path[1]
         new == hist.call[1].to[1]
         pre == hist.call[1].pre[1]
     IN IF pre[old] \notin {Undefined, Unparsable}
        THEN LET was == ensureLockDefaults(pre[old][1])
             IN /\ IsRecord(new)
                /\ store[new][1].cursor = was.cursor
                /\ store[new][1].scroll = was.scroll
                /\ (was.viewState = Undefined) = (store[new][1].viewState = Undefined)
                /\ was.viewState # Undefined
                     => store[new][1].viewState[1].mode = was.viewState[1].mode
                /\ store[new][1].protected = was.protected
                /\ store[new][1].timestamp = was.timestamp
                /\ store[old] = Undefined
        ELSE store = pre

(***************************************************************************)
(* Properties of the stored records while the vault changes (SpecVault).   *)
(***************************************************************************)

\* a step in which a readFileState(p) of the plugin returns
ReadStepOf(p) ==
  \/ toggle.pc \in {"read", "enfRead"} /\ toggle.path = Some(p) /\ toggle' # toggle
  \/ \E i \in 1..MaxEvals :
       /\ evals[i].pc \in {"enfRead", "mergeRead"}
       /\ evals[i].path = Some(p)
       /\ evals'[i] # evals[i]
  \/ startup.pc = "read" /\ startup.path = Some(p) /\ startup' # startup
  \/ op.pc = "read" /\ op.path = Some(p) /\ op' # op

\* C16 as stated: every stored record that has a viewState.file has it equal
\* to the path under which it is stored.
C16_StoredFileIsOwnPath == \A p \in Paths : ~Misfiled(store, p)

\* C16 amended: a stored record comes to hold a viewState.file other than
\* its own path only in the step in which renameFile writes the record of
\* the old path under the new one (it then names the old path), and every
\* readFileState of that path rewrites it to the path.
C16_MisfiledOnlyByRenameUntilRead ==
  [][\A p \in Paths :
       /\ (Misfiled(store', p) /\ ~Misfiled(store, p))
          => /\ op.kind = "rename" /\ op.pc = "write" /\ op.to = Some(p)
             /\ store'[p][1].viewState[1].file = op.path[1]
       /\ (Misfiled(store, p) /\ ReadStepOf(p)) => ~Misfiled(store', p)]_vars

\* the record of the renamed document, stored under the new path with the
\* old path in viewState.file, has been read and now names the new path
C16_RenamedRecordRepaired ==
  /\ active = Some("B.md")
  /\ store["B.md"] # Undefined
  /\ store["B.md"][1].viewState # Undefined
  /\ store["B.md"][1].viewState[1].file = "B.md"

\* the paths of the pending writeFileState calls
PathsOf(w) == [k \in 1..Len(w) |-> w[k].path]

\* the documents whose RecordStore or lock-manager operation takes the step:
\* those named by the frame that moves
Touched ==
  (IF op' # op /\ op.kind # "idle"
   THEN {q \in Paths : Some(q) \in {op.path, op.to}} ELSE {})
  \cup (IF toggle' # toggle THEN {q \in Paths : Some(q) = toggle.path} ELSE {})
  \cup {q \in Paths : \E i \in 1..MaxEvals :
                        evals'[i] # evals[i] /\ evals[i].path = Some(q)}
  \cup (IF startup' # startup THEN {q \in Paths : Some(q) = startup.path} ELSE {})
  \cup {q \in Paths : \E i \in 1..Len(handlers) :
                        /\ handlers[i].file = q
                        /\ handlers' # handlers}
  \cup {q \in Paths : \E j \in 1..Len(writes) :
                        /\ writes[j].pc = "write"
                        /\ writes[j].path = q
                        /\ Len(writes') = Len(writes) - 1
                        /\ PathsOf(writes') = RemoveAt(PathsOf(writes), j)}
  \cup (IF hist'.call # hist.call /\ hist'.call[1].kind = "read"
        THEN {q \in Paths : Some(q) = hist'.call[1].path} ELSE {})

\* deleteFile returns and none of its adapter calls rejected
DeleteReturns ==
  /\ op.kind = "delete"
  /\ op'.kind = "idle"
  /\ IF "store" \in observe THEN ~hist'.call[1].failed ELSE TRUE

\* C20: a step of writeFileState(p, .), deleteFile(p), toggleLockState(p) or
\* of a debounced save for p changes no stored record but that of p, a step
\* of renameFile none but those of the old and the new path; and when
\* deleteFile(p) returns nothing is stored for p.
C20_OnlyOwnKeysChange ==
  [][/\ \A q \in Paths : store'[q] # store[q] => q \in Touched
     /\ DeleteReturns => store'[op.path[1]] = Undefined]_vars

\* the records of two documents are stored side by side, each written by an
\* operation on its own document while no other operation was in progress
C20_TwoRecordsOneSaved ==
  /\ Calm
  /\ IsRecord("A.md")
  /\ IsRecord("B.md")
  /\ active = Some("B.md")
  /\ store["B.md"][1].cursor # Undefined
  /\ store["A.md"][1].viewState # Undefined

HasStringFile(content) ==
  /\ content \notin {Unparsable, NotAnObject}
  /\ content[1].viewState # Undefined
  /\ content[1].viewState[1].file # NoFile

\* the class of an entry as stated: invalid without a string viewState.file,
\* missing if the string names no document of the vault, kept otherwise
ClassAsStated(content, notes) ==
  IF ~HasStringFile(content) THEN "invalid"
  ELSE IF content[1].viewState[1].file \notin notes THEN "missing"
  ELSE "kept"

\* ... and with the empty string taken as no document path at all
ClassEmptyInvalid(content, notes) ==
  IF HasStringFile(content) /\ content[1].viewState[1].file = ""
  THEN "invalid"
  ELSE ClassAsStated(content, notes)

\* the number of files the pass has left as `class`
Seen(class) == Cardinality({f \in DbFiles : op.seen[f] = class})

\* The pass classifies by Class: every file it has processed is a .json
\* entry (in any letter case) and was either left in place and counted as an
\* error, or deleted and counted as its class says, or kept as it was; the
\* counters count these files, the other files are as before, and a
\* completed pass has processed every .json entry.
ValidationFollows(Class(_, _)) ==
  op.kind = "validate"
  => /\ \A f \in DbFiles :
          IF op.seen[f] = "untouched" THEN store[f] = op.pre[f]
          ELSE /\ f.ext \in {"json", "JSON"}
               /\ op.pre[f] # Undefined
               /\ \/ op.seen[f] = "error" /\ store[f] = op.pre[f]
                  \/ /\ op.seen[f] = Class(op.pre[f], op.notes)
                     /\ store[f] = IF op.seen[f] = "kept" THEN op.pre[f]
                                   ELSE Undefined
     /\ op.report.total = Cardinality(DbFiles) - Seen("untouched")
     /\ op.report.removedInvalidEntry = Seen("invalid")
     /\ op.report.removedMissingNote = Seen("missing")
     /\ op.report.errors = Seen("error")
     /\ op.report.total = op.report.removedInvalidEntry + op.report.removedMissingNote
                            + op.report.errors + Seen("kept")
     /\ op.notices = <<"completed">>
          => \A f \in DbFiles :
               (f.ext \in {"json", "JSON"} /\ op.pre[f] # Undefined)
                 => op.seen[f] # "untouched"

\* C21 as stated: validateDatabase deletes an entry without a string
\* viewState.file as invalid, deletes an entry whose string viewState.file
\* names no existing document as missing, counts an entry whose processing
\* raised as an error, keeps every other entry unmodified, counts each
\* .json entry once and leaves the other files untouched.
C21_ValidateClassifiesAsStated == ValidationFollows(ClassAsStated)

\* C21 amended: as stated, except that an entry whose viewState.file is the
\* empty string is deleted and counted as invalid, like an entry without a
\* string viewState.file.
C21_ValidateClassifiesEmptyAsInvalid == ValidationFollows(ClassEmptyInvalid)

\* a completed pass over one valid, one missing-document, one unparsable and
\* one uncorrelatable record reports total 4, removedMissingNote 1,
\* removedInvalidEntry 2, errors 0 and leaves the valid record
C21_FourRecordsValidated ==
  /\ op.kind = "validate"
  /\ op.notices = <<"completed">>
  /\ op.report = [NoReport EXCEPT !.total = 4, !.removedMissingNote = 1,
                                  !.removedInvalidEntry = 2]
  /\ \E f \in DbFiles : op.pre[f] = Unparsable
  /\ \E f \in DbFiles : op.pre[f] = Some(EmptyState)
  /\ {f \in DbFiles : f.ext # "txt" /\ store[f] # Undefined}
       = {f \in DbFiles : op.pre[f] = Some(RecordOf("A.md"))}

(***************************************************************************)
(* Properties of TemporaryStatesSame (SpecCompare).                        *)
(***************************************************************************)

\* What the ordered rules on null, emptiness, cursor and scroll decide for
\* two arguments: "same", "differ", or "open" when they leave the answer to
\* the view states.
DecidedByRules(left, right) ==
  LET truthy(y) == y \notin {Undefined, Some(0)}
      empty(x) == x.cursor = Undefined /\ ~truthy(x.scroll) /\ x.viewState = Undefined
  IN IF left = Undefined /\ right = Undefined THEN "same"
     ELSE IF left = Undefined \/ right = Undefined THEN "differ"
     ELSE IF empty(left[1]) /\ empty(right[1]) THEN "same"
     ELSE IF empty(left[1]) \/ empty(right[1]) THEN "differ"
     ELSE IF (left[1].cursor = Undefined) # (right[1].cursor = Undefined) THEN "differ"
     ELSE IF /\ left[1].cursor # Undefined
             /\ \/ left[1].cursor[1].start.line # right[1].cursor[1].start.line
                \/ left[1].cursor[1].start.col # right[1].cursor[1].start.col
                \/ left[1].cursor[1].end.line # right[1].cursor[1].end.line
                \/ left[1].cursor[1].end.col # right[1].cursor[1].end.col
          THEN "differ"
     ELSE IF truthy(left[1].scroll) # truthy(right[1].scroll) THEN "differ"
     ELSE IF truthy(left[1].scroll) /\ left[1].scroll[1] # right[1].scroll[1]
          THEN "differ"
     ELSE "open"

\* a state without its lock fields, and with nothing but its viewState
WithoutLock(x) ==
  IF x = Undefined THEN x
  ELSE Some([x[1] EXCEPT !.protected = Undefined, !.timestamp = Undefined])
OnlyViewState(x) == Some([EmptyState EXCEPT !.viewState = x[1].viewState])

\* C22: TemporaryStatesSame(a, b) is what the ordered rules on null,
\* emptiness, cursor (all four fields) and scroll (present when truthy, so
\* that 0 counts as absent) decide; where they decide nothing it is the
\* comparison of the two view states; and it does not depend on protected
\* or timestamp.
C22_SameFollowsOrderedRules ==
  op.kind = "compare"
  => LET rule == DecidedByRules(op.left, op.right)
     IN /\ rule = "same" => op.result
        /\ rule = "differ" => ~op.result
        /\ rule = "open"
             => op.result = TemporaryStatesSame(OnlyViewState(op.left),
                                                OnlyViewState(op.right))
        /\ op.result = TemporaryStatesSame(WithoutLock(op.left), WithoutLock(op.right))

\* a state with a cursor and a scroll of 0 compared with a state that has
\* the same cursor and no scroll, one of them locked: the same
C22_ZeroScrollIsAbsent ==
  /\ op.kind = "compare"
  /\ op.left # Undefined
  /\ op.right # Undefined
  /\ op.left[1].cursor # Undefined
  /\ op.left[1].scroll = Some(0)
  /\ op.right[1].scroll = Undefined
  /\ op.left[1].protected # op.right[1].protected
  /\ op.result

\* structural equality of two JSON values: objects by their key/value pairs
\* whatever the order of the keys, arrays element by element
RECURSIVE DeepEqual(_, _)
DeepEqual(a, b) ==
  IF a.type # b.type THEN FALSE
  ELSE CASE a.type = "string" -> a.v = b.v
         [] a.type = "array" ->
              /\ Len(a.items) = Len(b.items)
              /\ \A i \in 1..Len(a.items) : DeepEqual(a.items[i], b.items[i])
         [] a.type = "object" ->
              /\ {a.keys[i] : i \in 1..Len(a.keys)} = {b.keys[i] : i \in 1..Len(b.keys)}
              /\ \A i \in 1..Len(a.keys) : DeepEqual(a.vals[a.keys[i]], b.vals[a.keys[i]])

\* C23: two states equal in cursor and scroll compare as the same exactly
\* when their view states are both absent or structurally equal, whatever
\* the order in which the keys of their objects were inserted.
C23_ViewStatesComparedStructurally ==
  (op.kind = "compare" /\ DecidedByRules(op.left, op.right) = "open")
  => op.result =
       (IF op.left[1].viewState = Undefined \/ op.right[1].viewState = Undefined
        THEN op.left[1].viewState = op.right[1].viewState
        ELSE DeepEqual(op.left[1].viewState[1], op.right[1].viewState[1]))

(***************************************************************************)
(* Properties of performStateCheck (SpecCheck).                            *)
(***************************************************************************)

\* C24: performStateCheck calls saveTemporaryState only with an active file
\* that is the last loaded one, with the loading flag clear, for a captured
\* state that has a cursor, a truthy scroll or a viewState and is not the
\* same as the last snapshot; and of the checks in a row that capture one
\* and the same state at most one saves.
C24_NoSpuriousSave ==
  op.kind = "check"
  => /\ op.save
          => /\ op.fileName # Undefined
             /\ op.fileName = lastLoadedFileName
             /\ ~loadingFile
             /\ \/ op.state.cursor # Undefined
                \/ op.state.scroll \notin {Undefined, Some(0)}
                \/ op.state.viewState # Undefined
             /\ op.last # Undefined
             /\ ~TemporaryStatesSame(Some(op.state), op.last)
     /\ op.run.saves <= 1

\* three checks in a row captured the same state and the first of them saved
C24_ThreeSameCapturesOneSave ==
  /\ op.kind = "check"
  /\ op.run.len = 3
  /\ op.run.saves = 1

(***************************************************************************)
(* Properties of getFileHash (SpecHash).                                   *)
(***************************************************************************)

\* (a + b) mod 2^31 for a, b in 0..2^31-1, without leaving that range
AddMod31(a, b) ==
  CHOOSE sum \in {IF x > Mask31 - y THEN (x - (Mask31 - y)) - 1 ELSE x + y :
                    x \in {a}, y \in {b}} : TRUE

\* (h * k) mod 2^31 by doubling: h * k = 2 * (h * (k div 2)) + h * (k mod 2)
RECURSIVE TimesMod31(_, _)
TimesMod31(h, k) ==
  IF k = 0 THEN 0
  ELSE CHOOSE product \in
         {AddMod31(AddMod31(half, half), IF n % 2 = 1 THEN x ELSE 0) :
            x \in {h}, n \in {k}, half \in {TimesMod31(h, k \div 2)}} : TRUE

\* the hash of a path by the stated recurrence: 0 for the empty path, then
\* (h * prime + c) mod 2^31 for each character code c
RECURSIVE StatedHash(_, _)
StatedHash(filePath, prime) ==
  IF filePath = <<>> THEN 0
  ELSE AddMod31(TimesMod31(StatedHash(SubSeq(filePath, 1, Len(filePath) - 1),
                                      prime), prime),
                filePath[Len(filePath)])

\* the number written by a sequence of base-36 digits
RECURSIVE Value36(_)
Value36(digits) ==
  IF digits = <<>> THEN 0
  ELSE Value36(SubSeq(digits, 1, Len(digits) - 1)) * 36
         + (CHOOSE d \in 0..35 : Digits36[d + 1] = digits[Len(digits)])

\* C25: for every path the two hashes are those of the recurrence
\* (h * 31 + c) mod 2^31 and (h * 37 + c) mod 2^31 from 0 and lie in
\* 0..2^31-1; the key is the base-36 numeral of the first, of the second and
\* of the length, one after the other, made of the characters 0-9 and a-z
\* only and never empty; and a second call returns the same key.
C25_HashIsStatedRecurrence ==
  op.kind = "hash"
  => LET r == op.result
     IN /\ r.hash1 = StatedHash(op.filePath, 31)
        /\ r.hash2 = StatedHash(op.filePath, 37)
        /\ r.hash1 \in 0..Mask31
        /\ r.hash2 \in 0..Mask31
        /\ \A i \in 1..Len(r.combined) :
             \E d \in 1..36 : r.combined[i] = Digits36[d]
        /\ Len(r.combined) >= 3
        /\ r.combined = r.parts[1] \o r.parts[2] \o r.parts[3]
        /\ \A k \in 1..3 : r.parts[k] # <<>>
        /\ Value36(r.parts[1]) = r.hash1
        /\ Value36(r.parts[2]) = r.hash2
        /\ Value36(r.parts[3]) = Len(op.filePath)
        /\ op.first # Undefined => op.first = Some(r.combined)

\* a path whose product hash * 31 + char has bit 31 set at its last
\* character has been hashed twice
C25_WrappedPathHashedTwice ==
  /\ op.kind = "hash"
  /\ op.first # Undefined
  /\ op.filePath # <<>>
  /\ LET hash == HashOf(SubSeq(op.filePath, 1, Len(op.filePath) - 1), prime1)
         low == (hash % 65536) * prime1 + op.filePath[Len(op.filePath)]
         high == (hash \div 65536) * prime1 + (low \div 65536)
     IN high % 65536 >= 32768


(***************************************************************************)
(* Properties of the file-open handler (SpecOpen).                         *)
(***************************************************************************)

\* the last icon update belongs to a handler that found a record
IconOfRecord == hist.icon # Undefined /\ hist.icon[1].found

\* the handler that updated the icon has finished and what it queued has run
OpenSettled == handlers = <<>> /\ deferred = <<>>

\* the host shows the viewState, cursor and scroll of the record
HostShows(state) ==
  /\ state.viewState # Undefined => hostMode = state.viewState[1].mode
  /\ state.cursor # Undefined => hostCursor = state.cursor[1]
  /\ state.scroll # Undefined => hostScroll = state.scroll[1]

\* C26: when the handler of an activation has found a record, the icon it
\* sets is "corrupted" exactly when the record's timestamp is a number, stat
\* succeeded and the modification time it returned is not that number;
\* otherwise it is "locked" for protected = true and "unlocked" for false;
\* and whatever the icon, once the handler and its callbacks have run the
\* host shows the record's view mode, cursor and scroll.
C26_IconFollowsIntegrityAndRecordIsApplied ==
  IconOfRecord
  => LET icon == hist.icon[1]
         corrupted == /\ IsNumber(icon.state.timestamp)
                      /\ icon.stat = "ok"
                      /\ icon.state.timestamp # TsNum(icon.mtime)
     IN /\ icon.iconState = "corrupted" <=> corrupted
        /\ ~corrupted /\ icon.state.protected = Some(TRUE)
             => icon.iconState = "locked"
        /\ ~corrupted /\ icon.state.protected = Some(FALSE)
             => icon.iconState = "unlocked"
        /\ OpenSettled => HostShows(icon.state)

\* the icon is "corrupted" (the document is newer than the timestamp of its
\* locked record) and the record's view mode, cursor and scroll are on the host
C26_CorruptedRecordApplied ==
  /\ IconOfRecord
  /\ hist.icon[1].iconState = "corrupted"
  /\ hist.icon[1].state.timestamp = TsNum(1)
  /\ hist.icon[1].mtime = 2
  /\ OpenSettled
  /\ hostMode = "preview"
  /\ hostCursor = PriorRecord.cursor[1]
  /\ hostScroll = 2


\* the layoutChangeHandler of activation k meets another active document in
\* this step: it was registered, it is removed, and no invocation ends
Abandoned(k) ==
  /\ k \in 1..Len(activations)
  /\ activations[k].on
  /\ Some(activations[k].file) # active
  /\ Len(activations') = Len(activations)
  /\ ~activations'[k].on
  /\ Len(handlers') >= Len(handlers)

\* a newer activation of another document is registered and has set the
\* loading flag
NewerActivationLoading(k) ==
  /\ loadingFile
  /\ \E j \in (k + 1)..Len(activations) :
       activations[j].on /\ activations[j].file # activations[k].file

\* C27: a step in which the handler of an activation of A finds that the
\* active document is not A reads and writes no record, applies nothing to
\* the host, starts no invocation for A, and leaves the loading flag set by
\* a newer activation of another document; it only removes that handler.
C27_AbandonedActivationHasNoSideEffects ==
  [][\A k \in 1..MaxActivations :
       Abandoned(k)
       => /\ store' = store
          /\ <<hostCursor, hostScroll, hostMode>>' = <<hostCursor, hostScroll, hostMode>>
          /\ deferred' = deferred
          /\ timers' = timers
          /\ <<lastTemporaryState, lastLoadedFileName>>'
               = <<lastTemporaryState, lastLoadedFileName>>
          /\ \A i \in (Len(handlers) + 1)..Len(handlers') :
               handlers'[i].file # activations[k].file
          /\ NewerActivationLoading(k) => loadingFile']_vars


(***************************************************************************)
(* Properties of the startup restoration (SpecStartup, SpecStartupLive).   *)
(***************************************************************************)

\* the waits after the failed attempts 1 to 4
StatedDelays == <<10, 20, 40, 80>>

StartupBounded ==
  LET log == hist.startup
      reading == IF startup.pc = "read" THEN 1 ELSE 0
  IN /\ log.attempts <= 5
     /\ startup.pc = "delay"
          => /\ startup.attempt \in 1..4
             /\ startup.delayMs = StatedDelays[startup.attempt]
             /\ log.noFile + log.threw = startup.attempt
     /\ log.done /\ log.noFile = 5
          => /\ log.reads = 0 /\ log.applied = 0 /\ log.notices = 0
             /\ log.threw = 0
             /\ handlers = <<>> /\ deferred = <<>> => store["A.md"] = Some(PriorRecord)
     /\ log.attempts = log.noFile + log.threw + log.completed + reading
     /\ log.completed <= 1
     /\ log.completed = 1 => log.done
     /\ log.done => startup = IdleStartup /\ ~restorationPromise
     /\ phase = "loaded" /\ ~log.done => restorationPromise

\* C28: the startup restoration makes at most 5 attempts; it waits only after
\* a failed attempt k < 5, for 10 * 2^(k-1) ms; with no active document in
\* any attempt it returns having read nothing, applied nothing and raised
\* nothing; the first attempt that finds an active document and completes
\* is the last; and once the plugin is loaded restoreTemporaryState
\* eventually returns, with restorationPromise null.
C28_StartupRestorationTerminates ==
  /\ []StartupBounded
  /\ (phase = "loaded") ~> (hist.startup.done /\ ~restorationPromise)

\* four attempts have failed, the last wait was 80 ms, and the fifth attempt
\* found a document, read its record and applied it
C28_FifthAttemptRestores ==
  /\ hist.startup.done
  /\ hist.startup.attempts = 5
  /\ hist.startup.noFile + hist.startup.threw = 4
  /\ hist.startup.applied = 1


\* restoreTemporaryState has returned after five attempts that threw
Exhausted == hist.startup.done /\ hist.startup.threw = 5

\* C29: once all five attempts of the startup restoration have thrown, one
\* notice has been shown and no second one follows, restoreTemporaryState has
\* returned with restorationPromise null, the loading flag is false when it
\* returns, and a change event that arrives afterwards is not made to wait
\* for the restoration.
C29_ExhaustionReportedOnceAndReleased ==
  [][Exhausted'
     => /\ hist.startup.notices' = 1
        /\ startup' = IdleStartup
        /\ ~restorationPromise'
        /\ ~Exhausted => ~loadingFile'
        /\ \A i \in 1..MaxEvals :
             Exhausted /\ evals[i].pc = "raf" /\ evals'[i].pc # "raf"
             => evals'[i].pc # "waitRestore"]_vars

\* after the five attempts have thrown, the user has opened "A.md", its
\* record has been applied by the activation, and a change event has been
\* evaluated and has taken the first snapshot
C29_ActivationAndEvaluationAfterExhaustion ==
  /\ Exhausted
  /\ hist.startup.notices = 1
  /\ ~loadingFile
  /\ active = Some("A.md")
  /\ hostScroll = 2
  /\ hostCursor = PriorRecord.cursor[1]
  /\ lastTemporaryState # Undefined


(***************************************************************************)
(* Properties of verifyAndRetryScroll (SpecScroll, SpecScrollLive).        *)
(***************************************************************************)

\* |current - target| <= max(2 % of target, 2)
WithinTolerance(current, target) ==
  LET distance == IF current >= target THEN current - target ELSE target - current
  IN distance <= 2 \/ 100 * distance <= 2 * target

ScrollBounded ==
  op.kind = "scroll"
  => /\ op.reads <= 4
     /\ op.reapplied <= 3
     /\ op.reapplied <= op.reads
     /\ op.last # Undefined /\ WithinTolerance(op.last[1], op.targetScroll)
          => op.pc = "done" /\ op.returned = "verified"
     /\ op.reads = 4 => op.pc = "done"
     /\ op.returned = "accepted"
          => /\ op.reads = 4
             /\ ~WithinTolerance(op.last[1], op.targetScroll)
     /\ op.returned = "verified" => WithinTolerance(op.last[1], op.targetScroll)
     /\ op.pc = "done" <=> op.returned \in {"verified", "accepted", "noScroll"}

SnapshotOf(snapshot, p) ==
  /\ snapshot # Undefined
  /\ snapshot[1].viewState # Undefined
  /\ snapshot[1].viewState[1].file = p

\* C31: a file-open for a document other than the one loaded before leaves
\* the last snapshot null or holding something else than the snapshot of the
\* document loaded before.
C31_SnapshotClearedOnActivation ==
  [][/\ Len(activations') = Len(activations) + 1
     /\ lastLoadedFileName # Undefined
     /\ lastLoadedFileName' # lastLoadedFileName
     => ~SnapshotOf(lastTemporaryState', lastLoadedFileName[1])]_vars


\* "A.md" is active, its stored record is the one found at startup, every
\* restoration has finished and the host shows exactly that record
RestoredAndUntouched ==
  /\ active = Some("A.md")
  /\ store["A.md"] = Some(PriorRecord)
  /\ startup.pc = "idle" /\ handlers = <<>> /\ deferred = <<>>
  /\ ~loadingFile
  /\ HostShows(PriorRecord)

\* the last snapshot was captured from "A.md" before its record was applied
\* completely (a change event evaluated while the restoration was going on)
CapturedBeforeApplied ==
  /\ SnapshotOf(lastTemporaryState, "A.md")
  /\ ~TemporaryStatesSame(lastTemporaryState, Some(PriorRecord))

\* evaluation i decides to save in this step
DecidesToSave(i) == evals[i].pc # "mergeRead" /\ evals'[i].pc = "mergeRead"

\* C32: once the record of the active document has been read and applied and
\* the host shows exactly that record, no evaluation of a change event
\* that follows decides to save (change events evaluated before the record
\* was applied completely are not the ones meant).
C32_NoSaveAfterRestoration ==
  [][\A i \in 1..MaxEvals :
       RestoredAndUntouched /\ ~CapturedBeforeApplied => ~DecidesToSave(i)]_vars


(***************************************************************************)
(* Lock Mode UI: the status bar item and the 'lock-unlock' command         *)
(* (SpecLock).  The frame holds the plugin's fields lockStatusBar (is it   *)
(* defined) and lockCommandRegistered, the host's side of them and what    *)
(* was called last.                                                        *)
(***************************************************************************)

\* `command`: the host holds a command under lockCommandId;
\* `readded` (ghost): addCommand was called while the host held the command;
\* `adds`, `removes` (ghost): calls of addCommand and removeCommand
LockFrame ==
  [kind |-> "lock", loaded |-> FALSE, lockStatusBar |-> FALSE,
   lockCommandRegistered |-> FALSE, command |-> FALSE, readded |-> FALSE,
   adds |-> 0, removes |-> 0, calls |-> 0, last |-> "constructor"]

\* registerLockCommand(): nothing when the flag is set; else addCommand, and
\* the flag is set unless addCommand threw (the throw is caught and warned)
registerLockCommand(frame, throws) ==
  IF frame.lockCommandRegistered THEN frame
  ELSE IF throws
  THEN [frame EXCEPT !.readded = @ \/ frame.command, !.adds = @ + 1]
  ELSE [frame EXCEPT !.readded = @ \/ frame.command, !.adds = @ + 1,
                     !.command = TRUE, !.lockCommandRegistered = TRUE]

\* unregisterLockCommand(): nothing when the flag is clear; else
\* removeCommand, and the flag is cleared in `finally` whether or not
\* removeCommand threw
unregisterLockCommand(frame, throws) ==
  IF ~frame.lockCommandRegistered THEN frame
  ELSE [frame EXCEPT !.removes = @ + 1,
                     !.command = IF throws THEN @ ELSE FALSE,
                     !.lockCommandRegistered = FALSE]

LockCalled(frame, name) ==
  /\ op.calls < MaxLockCalls
  /\ op' = [frame EXCEPT !.calls = op.calls + 1, !.last = name]
  /\ UNCHANGED <<hostVars, diskVars, pluginVars, timerVars, evals, toggle, writes,
                 startup, activations, handlers, deferred, ghostVars>>

\* onload(): with settings.lockModeEnabled !== false a LockStatusBar is
\* constructed and registerLockCommand() is called
LockOnload(lockModeEnabled, throws) ==
  /\ ~op.loaded
  /\ LockCalled(IF lockModeEnabled
                THEN registerLockCommand([op EXCEPT !.loaded = TRUE,
                                                    !.lockStatusBar = TRUE],
                                         throws)
                ELSE [op EXCEPT !.loaded = TRUE],
                "onload")

\* enableLockMode()
enableLockMode(throws) ==
  /\ op.loaded
  /\ LockCalled(registerLockCommand([op EXCEPT !.lockStatusBar = TRUE], throws),
                "enableLockMode")

\* disableLockMode()
disableLockMode(throws) ==
  /\ op.loaded
  /\ LockCalled(unregisterLockCommand([op EXCEPT !.lockStatusBar = FALSE], throws),
                "disableLockMode")

\* onunload()
LockOnunload(throws) ==
  /\ op.loaded
  /\ LockCalled(unregisterLockCommand([op EXCEPT !.loaded = FALSE], throws),
                "onunload")

InitLock ==
  /\ Constructed
  /\ hostCursor = TopCursor
  /\ active = Some("A.md")
  /\ layoutReady = TRUE
  /\ dirExists = TRUE
  /\ observe = {}

\* the plugin is constructed
LockConstruct ==
  /\ op.kind = "idle"
  /\ op' = LockFrame
  /\ UNCHANGED <<hostVars, diskVars, pluginVars, timerVars, evals, toggle, writes,
                 startup, activations, handlers, deferred, ghostVars>>

NextLock ==
  \/ LockConstruct
  \/ op.kind = "lock" /\ \E lockModeEnabled \in BOOLEAN, throws \in BOOLEAN :
                           LockOnload(lockModeEnabled, throws)
  \/ op.kind = "lock" /\ \E throws \in BOOLEAN : enableLockMode(throws)
  \/ op.kind = "lock" /\ \E throws \in BOOLEAN : disableLockMode(throws)
  \/ op.kind = "lock" /\ \E throws \in BOOLEAN : LockOnunload(throws)

SpecLock == InitLock /\ [][NextLock]_vars

\* C33: the command is registered exactly when the plugin's flag says so,
\* addCommand is never called while the command is registered, after
\* enableLockMode the command is registered and the status bar exists, after
\* disableLockMode neither is there, and after onunload the command is not
\* registered.
C33_LockCommandAndStatusBar ==
  op.kind = "lock" =>
    /\ op.command = op.lockCommandRegistered
    /\ ~op.readded
    /\ op.last = "enableLockMode" => op.command /\ op.lockStatusBar
    /\ op.last = "disableLockMode" => ~op.command /\ ~op.lockStatusBar
    /\ op.last = "onunload" => ~op.command


(***************************************************************************)
(* Properties of renameFile under adapter failures (SpecStore).            *)
(***************************************************************************)

\* what is stored under p is a record with the cursor, scroll and lock
\* fields of `was`
HoldsContentOf(p, was) ==
  /\ IsRecord(p)
  /\ store[p][1].cursor = was.cursor
  /\ store[p][1].scroll = was.scroll
  /\ ensureLockDefaults(store[p][1]).protected = was.protected
  /\ ensureLockDefaults(store[p][1]).timestamp = was.timestamp

\* C34: when renameFile(file with path newPath, oldPath) has returned,
\* whatever adapter call rejected, a record that was stored under oldPath is
\* stored with its content under oldPath or under newPath.
C34_RenameNeverLosesState ==
  (hist.call # Undefined /\ hist.call[1].kind = "rename")
  => LET old == hist.call[1].path[1]
         new == hist.call[1].to[1]
         pre == hist.call[1].pre[1]
     IN pre[old] \notin {Undefined, Unparsable}
        => \/ HoldsContentOf(old, ensureLockDefaults(pre[old][1]))
           \/ HoldsContentOf(new, ensureLockDefaults(pre[old][1]))


(***************************************************************************)
(* SpecVaultValidate: SpecVault with the "Validate database" command run   *)
(* between the operations of the plugin.  The store is indexed by          *)
(* document path (the database file of p is getDbFilePath(p)); a pass over *)
(* the listing, in which no adapter call rejects, is one step.             *)
(***************************************************************************)

\* the documents of the vault: the vault's only document is the open one
Notes == IF active = Undefined THEN {} ELSE {active[1]}

\* one iteration of the loop of validateDatabase on a file holding
\* `content`: the file is removed when notePath is undefined or empty, or
\* names no document of the vault, and is left as it is otherwise
ValidatedEntry(content, notes) ==
  IF content = Undefined THEN Undefined
  ELSE IF NotePath(content) = Undefined \/ NotePath(content) = Some("")
  THEN Undefined
  ELSE IF NotePath(content)[1] \notin notes THEN Undefined
  ELSE content

\* validateDatabase(): the loop over all files of the storage root
ValidateDatabase ==
  /\ phase = "loaded"
  /\ dirExists
  /\ store' = [p \in Paths |-> ValidatedEntry(store[p], Notes)]
  /\ hist' = Other(hist)
  /\ UNCHANGED <<hostVars, dirExists, pluginVars, timerVars, frameVars, burst,
                 observe>>

NextVaultValidate ==
  \/ NextVault
  \/ Calm /\ ValidateDatabase

SpecVaultValidate == InitVault /\ [][NextVaultValidate]_vars

\* C35: a pass of validateDatabase leaves the record stored for a document
\* of the vault, with its protected flag, as it was.
C35_ValidateKeepsExistingDocuments ==
  [][(Calm /\ ValidateDatabase)
       => \A p \in Notes :
            IsRecord(p)
            => /\ store'[p] # Undefined
               /\ store'[p][1].protected = store[p][1].protected]_vars


(***************************************************************************)
(* SpecSwitch: the lock command on "A.md" of a fresh vault while the user  *)
(* goes over to "B.md", with the change events of the host.                *)
(***************************************************************************)

InitSwitch ==
  /\ InitLoaded
  /\ observe = {}

NextSwitch ==
  \/ Onload
  \/ StartupRead
  \/ FileOpen("B.md")
  \/ LayoutChange
  \/ \E i \in 1..MaxHandlers : HandlerRead(i)
  \/ \E i \in 1..MaxHandlers : HandlerVerify(i)
  \/ \E i \in 1..MaxHandlers : HandlerReveal(i)
  \/ EvalSteps
  \/ \E i \in 1..MaxEvals : EvalEnforceSet(i)
  \/ ApplySteps
  \/ active = Some("A.md") /\ ToggleStart
  \/ ToggleRead
  \/ ToggleStat
  \/ ToggleWriteExists
  \/ ToggleWriteLand
  \/ ToggleEnforceRead
  \/ ToggleEnforceSet
  \/ WriteSteps

SpecSwitch == InitSwitch /\ [][NextSwitch]_vars

\* C36: the lock command is only ever given on "A.md", nothing is renamed
\* and no record is stored at the start, so no record with protected = true
\* is stored for "B.md".
C36_LockNeverLeaks == ~StoredFlag("B.md")


(***************************************************************************)
(* Properties of overlapping activations (SpecRestore).                    *)
(***************************************************************************)

\* invocation i of a layoutChangeHandler calls setTemporaryState in this step
CallsSetTemporaryState(i) ==
  /\ i \in 1..Len(handlers)
  /\ handlers[i].pc = "reveal"
  /\ handlers' = RemoveAt(handlers, i)

\* the onLayoutReady or requestAnimationFrame callback of the i-th pending
\* setTemporaryState of a layoutChangeHandler runs in this step
RunsCallbackOf(i) ==
  /\ i \in 1..Len(deferred)
  /\ deferred[i].rid = "open"
  /\ deferred' # deferred
  /\ \/ deferred' = RemoveAt(deferred, i)
     \/ deferred' = [deferred EXCEPT ![i].kind = "raf"]

\* C37: what a layoutChangeHandler hands to setTemporaryState, and what the
\* callbacks of that call set in the host, was read from the record of the
\* document that is active in that step.
C37_RecordAppliedToItsOwnDocument ==
  [][/\ \A i \in 1..MaxHandlers :
          CallsSetTemporaryState(i) => active = Some(handlers[i].file)
     /\ \A i \in 1..MaxDeferred :
          (RunsCallbackOf(i) /\ deferred[i].state.viewState # Undefined)
          => active = Some(deferred[i].state.viewState[1].file)]_vars


(***************************************************************************)
(* SpecLoading: SpecOpen with host calls that throw while the record is    *)
(* applied.  Fairness: an await of the handler settles; the host's events  *)
(* (file-open, layout-change) come when they come.                         *)
(***************************************************************************)

\* `await this.app.workspace.revealLeaf(...)` rejects, or view.setState throws
\* in setTemporaryState: the invocation of the layoutChangeHandler ends with
\* an unhandled rejection, before `this.loadingFile = false` and
\* workspace.off
HandlerRevealThrows(i) ==
  /\ i \in 1..Len(handlers)
  /\ handlers[i].pc = "reveal"
  /\ handlers' = RemoveAt(handlers, i)
  /\ hist' = Other(hist)
  /\ UNCHANGED <<hostVars, diskVars, pluginVars, timerVars, evals, toggle, writes,
                 startup, activations, deferred, burst, observe, op>>

HandlerAwaits ==
  \/ \E i \in 1..MaxHandlers : HandlerRead(i)
  \/ \E i \in 1..MaxHandlers : HandlerVerify(i)
  \/ \E i \in 1..MaxHandlers : HandlerReveal(i)
  \/ \E i \in 1..MaxHandlers : HandlerRevealThrows(i)

NextLoading ==
  \/ FileOpen("A.md")
  \/ LayoutChange
  \/ HandlerAwaits
  \/ ApplySteps
  \/ Modify

SpecLoading == InitOpen /\ [][NextLoading]_vars /\ WF_vars(HandlerAwaits)

\* C38: once the layoutChangeHandler of an activation has been invoked, the
\* loading flag returns to false and the handler is removed.
C38_LoadingFlagReturns ==
  (handlers # <<>>)
    ~> (~loadingFile /\ \A k \in 1..Len(activations) : ~activations[k].on)


(***************************************************************************)
(* SpecReread: readFileState called twice in a row on the database of      *)
(* SpecStore; the span.is-flashing element is there or not from before the *)
(* first call on.                                                          *)
(***************************************************************************)

NextReread ==
  \/ hist.call = Undefined /\ Flash
  \/ \E p \in Paths :
       /\ hist.calls < 2
       /\ hist.call # Undefined => hist.call[1].path = Some(p)
       /\ CallReadFileState(p, "none")

SpecReread == InitStore /\ [][NextReread]_vars

\* C39: a readFileState(p) that follows at once on a readFileState(p) that
\* returned a record returns the same record and leaves the store as it
\* found it.
C39_RepairConvergesInOneStep ==
  (/\ hist.calls = 2
   /\ hist.call[1].prev[1].result # Undefined)
  => /\ hist.call[1].result = hist.call[1].prev[1].result
     /\ store = hist.call[1].pre[1]


(***************************************************************************)
(* SpecEquiv: TemporaryStatesSame called on every pair of three states (or *)
(* null) drawn from EquivStates.                                           *)
(***************************************************************************)

\* null, {} and states with and without a cursor, with no scroll, a scroll
\* of 0 and another scroll, with viewState undefined, null, and the same
\* pairs in two key orders, without and with lock fields
EquivStates ==
  {Undefined} \cup
  { Some([cursor |-> c, scroll |-> y, viewState |-> v,
          protected |-> l[1], timestamp |-> l[2]]) :
      c \in {Undefined} \cup
            {Some(x) : x \in {k \in CompareCursors :
                                k.start.col = 5 /\ k.end.line = 3 /\ k.end.col = 10}},
      y \in {Undefined, Some(0), Some(2)},
      v \in {Undefined, Some(NullValue),
             Some(Obj(<<"type", "file">>,
                      [k \in {"type", "file"} |->
                         IF k = "type" THEN Str("markdown") ELSE Str("a.md")])),
             Some(Obj(<<"file", "type">>,
                      [k \in {"type", "file"} |->
                         IF k = "type" THEN Str("markdown") ELSE Str("a.md")]))},
      l \in {<<Undefined, Undefined>>, <<Some(TRUE), TsNum(1)>>} }

\* plugin.TemporaryStatesSame on (a, a), (a, b), (b, a), (b, c) and (a, c)
CallTemporaryStatesSameOnThree(a, b, c) ==
  /\ op' = [kind |-> "equiv", a |-> a, b |-> b, c |-> c,
            aa |-> TemporaryStatesSame(a, a),
            ab |-> TemporaryStatesSame(a, b),
            ba |-> TemporaryStatesSame(b, a),
            bc |-> TemporaryStatesSame(b, c),
            ac |-> TemporaryStatesSame(a, c)]
  /\ UNCHANGED <<hostVars, diskVars, pluginVars, timerVars, evals, toggle, writes,
                 startup, activations, handlers, deferred, ghostVars>>

NextEquiv ==
  /\ op.kind = "idle"
  /\ \E a \in EquivStates, b \in EquivStates, c \in EquivStates :
       CallTemporaryStatesSameOnThree(a, b, c)

SpecEquiv == InitCompare /\ [][NextEquiv]_vars

\* C40: TemporaryStatesSame is reflexive, symmetric and transitive.
C40_SameIsAnEquivalence ==
  op.kind = "equiv"
  => /\ op.aa
     /\ op.ab = op.ba
     /\ (op.ab /\ op.bc) => op.ac

\* three different states that are the same: a scroll of 0, no scroll, and
\* no scroll with lock fields, each with the same cursor and a null viewState
C40_ThreeDifferentStatesTheSame ==
  /\ op.kind = "equiv"
  /\ op.a # Undefined /\ op.b # Undefined /\ op.c # Undefined
  /\ op.a[1].cursor # Undefined
  /\ op.a[1].scroll = Some(0)
  /\ op.a[1].viewState = Some(NullValue)
  /\ op.b[1].scroll = Undefined
  /\ op.b[1].protected = Undefined
  /\ op.c[1].scroll = Undefined
  /\ op.c[1].protected = Some(TRUE)
  /\ op.ab /\ op.bc /\ op.ac

=============================================================================
